---- MODULE Spec2Model ----
(***************************************************************************)
(* Model of the Bitcoin Script interpreter with OP_CAT enabled              *)
(* (scripts/generate_bitcoin_vectors.py): the script-number codec, the      *)
(* truthiness test, and BitcoinScriptVM.execute as a state machine that     *)
(* takes one opcode per step (Spec), the codec called on its own            *)
(* (CodecSpec), one instance used for several calls (ReuseSpec) and by two  *)
(* callers at once (ConcSpec), generate_test_vector (GenSpec), scripts of   *)
(* OP_VERIFY and OP_EQUAL (TruthSpec), chains of OP_CAT (CatSpec) and       *)
(* scripts run in two parts (ComposeSpec); and of                           *)
(* scripts/fetch_signet_tx.py: the BIP143 sighash preimage (SigSpec),       *)
(* Transaction._var_int (VarIntSpec) and extract_script_code (EscSpec).     *)
(*                                                                         *)
(* Byte strings (Python bytes) are sequences of 0..255.  Python integers    *)
(* are unbounded; they are modelled as sign and magnitude, the magnitude a  *)
(* little-endian base-256 digit sequence without most-significant zeros.    *)
(***************************************************************************)
EXTENDS Integers, Sequences, FiniteSets, TLC

\* script, initial_stack: the arguments of execute.
\* stack, error: the fields of the BitcoinScriptVM.  pc: the local of execute.
\* phase: "idle" before the call, "running" inside the loop, "returned" after
\* the return; result: the returned flag.
\* last_op, prev_stack, prev_pc: the opcode the last loop iteration ran (-1
\* before the first) and the stack and pc at its start.  steps: the number
\* of loop iterations so far.  calls: the number of execute calls made on
\* the BitcoinScriptVM so far.
VARIABLES script, initial_stack, stack, error, pc, phase, result,
          last_op, prev_stack, prev_pc, steps, calls

vm_vars == <<script, initial_stack, stack, error, pc, phase, result,
             last_op, prev_stack, prev_pc, steps, calls>>

\* A caller of the script-number codec.  codec_arg: the argument of the first
\* call (an integer for encode_script_num, a byte string for
\* decode_script_num); codec_value, codec_data: the integer and the byte
\* string the calls made so far have returned; codec_phase: which calls have
\* been made.
VARIABLES codec_arg, codec_value, codec_data, codec_phase

codec_vars == <<codec_arg, codec_value, codec_data, codec_phase>>

\* Two callers running execute at the same time.  vms: the fields (stack,
\* error) of each BitcoinScriptVM instance; callers: for each caller the
\* instance it calls (vm), the arguments (script, initial_stack), the locals
\* of its execute call (pc), where it is (phase), the returned flag
\* (success) and what it read from vm.stack and vm.error after the return
\* (seen_stack, seen_error).
VARIABLES vms, callers

conc_vars == <<vms, callers>>

\* A caller of Transaction.compute_sighash.  tx: the Transaction; sig_args:
\* the arguments input_index, script_code, value and sighash_type;
\* preimage: what serialize_for_sighash returned; digest: what compute_sighash
\* returned; sig_error: the exception raised, if any; sig_phase: "called",
\* "serialized", "hashed" or "raised".
VARIABLES tx, sig_args, preimage, digest, sig_error, sig_phase

sig_vars == <<tx, sig_args, preimage, digest, sig_error, sig_phase>>

\* A caller of generate_test_vector on the BitcoinScriptVM above.  gen_args:
\* the arguments name and description (script and initial_stack are passed
\* on to execute); vector: the dict it returned; gen_phase: "calling" until
\* it has returned, then "returned".
VARIABLES gen_args, vector, gen_phase

gen_vars == <<gen_args, vector, gen_phase>>

\* A caller that runs a script in two parts.  split: the length of the first
\* part.
VARIABLES split

\* A caller of Transaction._var_int.  varint_n: the argument; varint_out:
\* the bytes returned; varint_error: the exception raised, if any;
\* varint_phase: "called", "returned" or "raised".
VARIABLES varint_n, varint_out, varint_error, varint_phase

varint_vars == <<varint_n, varint_out, varint_error, varint_phase>>

\* A caller of extract_script_code.  esc_script_pubkey, esc_witness: the
\* arguments; esc_result: the bytes returned; esc_phase: "called" or
\* "returned".
VARIABLES esc_script_pubkey, esc_witness, esc_result, esc_phase

esc_vars == <<esc_script_pubkey, esc_witness, esc_result, esc_phase>>

\* The variables of the callers of the helper functions.
helper_vars == <<gen_vars, split, varint_vars, esc_vars>>

\* The variables execute neither reads nor writes.
outside_vm == <<codec_vars, conc_vars, sig_vars, helper_vars>>

\* The variables the codec's callers neither read nor write.
outside_codec == <<vm_vars, conc_vars, sig_vars, helper_vars>>

\* The variables the two concurrent callers neither read nor write.
outside_conc == <<vm_vars, codec_vars, sig_vars, helper_vars>>

\* The variables compute_sighash neither reads nor writes.
outside_sig == <<vm_vars, codec_vars, conc_vars, helper_vars>>

\* The variables generate_test_vector neither reads nor writes.
outside_gen == <<vm_vars, codec_vars, conc_vars, sig_vars, split,
                 varint_vars, esc_vars>>

\* The variables _var_int neither reads nor writes.
outside_varint == <<vm_vars, codec_vars, conc_vars, sig_vars, gen_vars,
                    split, esc_vars>>

\* The variables extract_script_code neither reads nor writes.
outside_esc == <<vm_vars, codec_vars, conc_vars, sig_vars, gen_vars,
                 split, varint_vars>>

vars == <<vm_vars, outside_vm>>

(***************************************************************************)
(* Program constants                                                        *)
(***************************************************************************)
MAX_SCRIPT_ELEMENT_SIZE == 520
MAX_STACK_SIZE == 1000

OP_0 == 0
OP_VERIFY == 105
OP_DROP == 117
OP_DUP == 118
OP_CAT == 126
OP_EQUAL == 135
OP_ADD == 147

\* Python's None, the value of vm.error when no error is recorded.
None == "None"

(***************************************************************************)
(* Bounds of the model                                                      *)
(***************************************************************************)
\* Longest script taken from the byte alphabet ScriptBytes.
MaxScriptLen == 3
\* Deepest initial stack built from the elements of SmallElems.
MaxInitDepth == 2
\* Longest enumerated script run on the stacks of LimitStacks.
MaxLimitScriptLen == 2
\* The codec is called with every integer up to this magnitude and every
\* byte string over CodecBytes up to this length.
MaxCodecInt == 300
MaxCodecLen == 3
\* Most execute calls made on one BitcoinScriptVM, and the longest
\* enumerated script of those calls.
MaxCalls == 3
MaxReuseScriptLen == 1
\* Most inputs and most outputs of a Transaction.
MaxTxInputs == 2
MaxTxOutputs == 1

\* The _var_int arguments enumerated without a gap: 0..MaxVarInt.
MaxVarInt == 300

\* Most elements of a witness.
MaxWitnessLen == 2

\* Most bytes of the first part of a script run in two parts (the listed
\* longer ones apart).
MaxComposeLen == 1

\* Most OP_CATs in a script of OP_CATs over every small stack.
MaxCatDepth == 2

(***************************************************************************)
(* Helpers on byte strings                                                  *)
(***************************************************************************)
Rep(b, n) == [i \in 1..n |-> b]

Last(s) == s[Len(s)]

\* list.pop() leaves the list without its last element.
Pop(s) == SubSeq(s, 1, Len(s) - 1)

HexDigit == <<"0", "1", "2", "3", "4", "5", "6", "7",
              "8", "9", "a", "b", "c", "d", "e", "f">>

\* f"{opcode:02x}"
Hex2(b) == HexDigit[(b \div 16) + 1] \o HexDigit[(b % 16) + 1]

(***************************************************************************)
(* Python integers as sign and magnitude                                    *)
(***************************************************************************)
\* Drop the most-significant zero digits of a little-endian magnitude.
StripZeros(m) ==
    SubSeq(m, 1, Cardinality({i \in 1..Len(m) : \E j \in i..Len(m) : m[j] # 0}))

BigZero == [neg |-> FALSE, mag |-> <<>>]

RECURSIVE NatDigits(_)
NatDigits(n) == IF n = 0 THEN <<>> ELSE <<n % 256>> \o NatDigits(n \div 256)

\* An integer literal of the program as a Python integer.
BigOf(n) == IF n < 0 THEN [neg |-> TRUE, mag |-> NatDigits(0 - n)]
            ELSE [neg |-> FALSE, mag |-> NatDigits(n)]

\* Unary minus; -0 is 0.
BigNeg(x) == IF x.mag = <<>> THEN BigZero ELSE [neg |-> ~x.neg, mag |-> x.mag]

Digit(m, i) == IF i <= Len(m) THEN m[i] ELSE 0

RECURSIVE AddDigits(_, _, _, _, _)
\* Digits lo..hi of x + y + c and the carry out of digit hi, by halving.
AddDigits(x, y, lo, hi, c) ==
    IF lo > hi THEN [d |-> <<>>, c |-> c]
    ELSE IF lo = hi
    THEN LET s == Digit(x, lo) + Digit(y, lo) + c
         IN  [d |-> <<s % 256>>, c |-> s \div 256]
    ELSE LET mid == (lo + hi) \div 2
             l == AddDigits(x, y, lo, mid, c)
             r == AddDigits(x, y, mid + 1, hi, l.c)
         IN  [d |-> l.d \o r.d, c |-> r.c]

MagAdd(x, y) ==
    LET n == IF Len(x) > Len(y) THEN Len(x) ELSE Len(y)
        r == AddDigits(x, y, 1, n, 0)
    IN  IF r.c = 0 THEN r.d ELSE Append(r.d, r.c)

\* x < y for magnitudes without most-significant zeros.
MagLess(x, y) ==
    IF Len(x) # Len(y) THEN Len(x) < Len(y)
    ELSE \E i \in 1..Len(x) :
            /\ x[i] < y[i]
            /\ \A k \in (i + 1)..Len(x) : x[k] = y[k]

RECURSIVE SubDigits(_, _, _, _, _)
\* Digits lo..hi of x - y - b and the borrow out of digit hi, by halving.
SubDigits(x, y, lo, hi, b) ==
    IF lo > hi THEN [d |-> <<>>, b |-> b]
    ELSE IF lo = hi
    THEN LET s == Digit(x, lo) - Digit(y, lo) - b
         IN  IF s < 0 THEN [d |-> <<s + 256>>, b |-> 1]
             ELSE [d |-> <<s>>, b |-> 0]
    ELSE LET mid == (lo + hi) \div 2
             l == SubDigits(x, y, lo, mid, b)
             r == SubDigits(x, y, mid + 1, hi, l.b)
         IN  [d |-> l.d \o r.d, b |-> r.b]

\* x - y for x >= y.
MagSub(x, y) == StripZeros(SubDigits(x, y, 1, Len(x), 0).d)

\* a + b on Python integers.
BigAdd(a, b) ==
    IF a.neg = b.neg THEN [neg |-> a.neg, mag |-> MagAdd(a.mag, b.mag)]
    ELSE IF a.mag = b.mag THEN BigZero
    ELSE IF MagLess(a.mag, b.mag) THEN [neg |-> b.neg, mag |-> MagSub(b.mag, a.mag)]
    ELSE [neg |-> a.neg, mag |-> MagSub(a.mag, b.mag)]

(***************************************************************************)
(* Script-number codec and truthiness                                       *)
(***************************************************************************)
\* decode_script_num keeping the sign bit in the magnitude.
decode_script_num_SignNotMasked(data) ==
    IF Len(data) = 0 THEN BigZero
    ELSE LET negative == Last(data) >= 128
             res == StripZeros(data)
         IN  IF negative THEN BigNeg([neg |-> FALSE, mag |-> res])
             ELSE [neg |-> FALSE, mag |-> res]

decode_script_num(data) ==
    IF Len(data) = 0 THEN BigZero
    ELSE LET negative == Last(data) >= 128
             res == StripZeros(
                       [i \in 1..Len(data) |->
                           IF i = Len(data) /\ negative
                           THEN data[i] % 128 ELSE data[i]])
         IN  IF negative THEN BigNeg([neg |-> FALSE, mag |-> res])
             ELSE [neg |-> FALSE, mag |-> res]

\* encode_script_num without the extra byte that keeps the sign bit free.
encode_script_num_NoSignByte(value) ==
    IF value.mag = <<>> THEN <<>>
    ELSE IF value.neg /\ Last(value.mag) < 128
    THEN [value.mag EXCEPT ![Len(value.mag)] = @ + 128]
    ELSE value.mag

encode_script_num(value) ==
    IF value.mag = <<>> THEN <<>>
    ELSE LET negative == value.neg
             res == value.mag
         IN  IF Last(res) >= 128
             THEN Append(res, IF negative THEN 128 ELSE 0)
             ELSE IF negative
             THEN [res EXCEPT ![Len(res)] = @ + 128]
             ELSE res

\* is_truthy looking at the last byte only.
is_truthy_LastByteOnly(data) ==
    IF Len(data) = 0 THEN FALSE
    ELSE data[Len(data)] % 128 # 0

\* is_truthy as a bare all-bytes-zero test, without the sign-bit mask.
is_truthy_AllZero(data) ==
    IF Len(data) = 0 THEN FALSE
    ELSE \E i \in 1..Len(data) : data[i] # 0

is_truthy(data) ==
    IF Len(data) = 0 THEN FALSE
    ELSE \E i \in 1..Len(data) :
            IF i = Len(data) THEN data[i] % 128 # 0 ELSE data[i] # 0

(***************************************************************************)
(* The opcodes of BitcoinScriptVM.execute.  Each operator takes the state   *)
(* at the start of the opcode's branch (pc already past the opcode byte)    *)
(* and gives the stack, the pc and the ScriptError message (None when the   *)
(* branch reaches its continue) at the end of it.                           *)
(***************************************************************************)
Outcome(stk, p, err) == [stack |-> stk, pc |-> p, error |-> err]

\* The direct push refusing a push that ends exactly at the script's end.
OpDirectPush_OffByOne(scr, p, stk, opcode) ==
    IF p + opcode >= Len(scr)
    THEN Outcome(stk, p, "PUSH: not enough data")
    ELSE Outcome(Append(stk, SubSeq(scr, p + 1, p + opcode)), p + opcode,
                 None)

\* The direct push without pc += opcode.
OpDirectPush_NoAdvance(scr, p, stk, opcode) ==
    IF p + opcode > Len(scr)
    THEN Outcome(stk, p, "PUSH: not enough data")
    ELSE Outcome(Append(stk, SubSeq(scr, p + 1, p + opcode)), p, None)

\* The direct push slicing to the end of the script: script[pc:] for
\* script[pc:pc + opcode].
OpDirectPush_TakesRest(scr, p, stk, opcode) ==
    IF p + opcode > Len(scr)
    THEN Outcome(stk, p, "PUSH: not enough data")
    ELSE Outcome(Append(stk, SubSeq(scr, p + 1, Len(scr))), p + opcode, None)

\* Opcodes 0x01..0x4b push that many bytes.
OpDirectPush(scr, p, stk, opcode) ==
    IF p + opcode > Len(scr)
    THEN Outcome(stk, p, "PUSH: not enough data")
    ELSE Outcome(Append(stk, SubSeq(scr, p + 1, p + opcode)), p + opcode, None)

\* The length-prefixed push without the test of the stack's depth.
OpPush_NoDepthCheck(scr, p, stk) ==
    IF p >= Len(scr)
    THEN Outcome(stk, p, "OP_PUSH: missing length")
    ELSE LET length == scr[p + 1]
             p2 == p + 1
             data == SubSeq(scr, p2 + 1, p2 + length)
         IN  IF p2 + length > Len(scr)
             THEN Outcome(stk, p2, "OP_PUSH: not enough data")
             ELSE IF Len(data) > MAX_SCRIPT_ELEMENT_SIZE
             THEN Outcome(stk, p2, "OP_PUSH: element too large")
             ELSE Outcome(Append(stk, data), p2 + length, None)

\* OP_0 used as OP_PUSH: a length byte, then the data.
OpPush(scr, p, stk) ==
    IF p >= Len(scr)
    THEN Outcome(stk, p, "OP_PUSH: missing length")
    ELSE LET length == scr[p + 1]
             p2 == p + 1
             data == SubSeq(scr, p2 + 1, p2 + length)
         IN  IF p2 + length > Len(scr)
             THEN Outcome(stk, p2, "OP_PUSH: not enough data")
             ELSE IF Len(data) > MAX_SCRIPT_ELEMENT_SIZE
             THEN Outcome(stk, p2, "OP_PUSH: element too large")
             ELSE IF Len(stk) >= MAX_STACK_SIZE
             THEN Outcome(stk, p2, "Stack overflow")
             ELSE Outcome(Append(stk, data), p2 + length, None)

\* OP_VERIFY reading the top element without popping it.
OpVerify_NoPop(p, stk) ==
    IF Len(stk) < 1
    THEN Outcome(stk, p, "OP_VERIFY: stack underflow")
    ELSE IF ~is_truthy(Last(stk))
    THEN Outcome(stk, p, "OP_VERIFY: failed")
    ELSE Outcome(stk, p, None)

OpVerify(p, stk) ==
    IF Len(stk) < 1
    THEN Outcome(stk, p, "OP_VERIFY: stack underflow")
    ELSE LET top == Last(stk)
         IN  IF ~is_truthy(top)
             THEN Outcome(Pop(stk), p, "OP_VERIFY: failed")
             ELSE Outcome(Pop(stk), p, None)

OpDrop(p, stk) ==
    IF Len(stk) < 1
    THEN Outcome(stk, p, "OP_DROP: stack underflow")
    ELSE Outcome(Pop(stk), p, None)

\* OP_DUP testing the depth with > instead of >=.
OpDup_OffByOne(p, stk) ==
    IF Len(stk) < 1
    THEN Outcome(stk, p, "OP_DUP: stack underflow")
    ELSE IF Len(stk) > MAX_STACK_SIZE
    THEN Outcome(stk, p, "Stack overflow")
    ELSE Outcome(Append(stk, Last(stk)), p, None)

OpDup(p, stk) ==
    IF Len(stk) < 1
    THEN Outcome(stk, p, "OP_DUP: stack underflow")
    ELSE IF Len(stk) >= MAX_STACK_SIZE
    THEN Outcome(stk, p, "Stack overflow")
    ELSE Outcome(Append(stk, Last(stk)), p, None)

\* OP_CAT without the check of the result's size.
OpCat_NoSizeCheck(p, stk) ==
    IF Len(stk) < 2
    THEN Outcome(stk, p, "OP_CAT: stack underflow")
    ELSE LET rest == Pop(Pop(stk))
         IN  IF Len(rest) >= MAX_STACK_SIZE
             THEN Outcome(rest, p, "Stack overflow")
             ELSE Outcome(Append(rest, Last(Pop(stk)) \o Last(stk)), p, None)

\* OP_CAT concatenating b || a.
OpCat_Swapped(p, stk) ==
    IF Len(stk) < 2
    THEN Outcome(stk, p, "OP_CAT: stack underflow")
    ELSE LET rest == Pop(Pop(stk))
             res == Last(stk) \o Last(Pop(stk))
         IN  IF Len(res) > MAX_SCRIPT_ELEMENT_SIZE
             THEN Outcome(rest, p, "OP_CAT: result too large")
             ELSE IF Len(rest) >= MAX_STACK_SIZE
             THEN Outcome(rest, p, "Stack overflow")
             ELSE Outcome(Append(rest, res), p, None)

\* OP_CAT popping b before it looks for a.
OpCat_PopBeforeCheck(p, stk) ==
    IF Len(stk) < 1
    THEN Outcome(stk, p, "OP_CAT: stack underflow")
    ELSE IF Len(Pop(stk)) < 1
    THEN Outcome(Pop(stk), p, "OP_CAT: stack underflow")
    ELSE LET rest == Pop(Pop(stk))
             res == Last(Pop(stk)) \o Last(stk)
         IN  IF Len(res) > MAX_SCRIPT_ELEMENT_SIZE
             THEN Outcome(rest, p, "OP_CAT: result too large")
             ELSE IF Len(rest) >= MAX_STACK_SIZE
             THEN Outcome(rest, p, "Stack overflow")
             ELSE Outcome(Append(rest, res), p, None)

\* Pop b, pop a, push a || b.
OpCat(p, stk) ==
    IF Len(stk) < 2
    THEN Outcome(stk, p, "OP_CAT: stack underflow")
    ELSE LET b == Last(stk)
             a == Last(Pop(stk))
             rest == Pop(Pop(stk))
             res == a \o b
         IN  IF Len(res) > MAX_SCRIPT_ELEMENT_SIZE
             THEN Outcome(rest, p, "OP_CAT: result too large")
             ELSE IF Len(rest) >= MAX_STACK_SIZE
             THEN Outcome(rest, p, "Stack overflow")
             ELSE Outcome(Append(rest, res), p, None)

\* OP_EQUAL comparing the operands as script numbers.
OpEqual_Numeric(p, stk) ==
    IF Len(stk) < 2
    THEN Outcome(stk, p, "OP_EQUAL: stack underflow")
    ELSE LET same == decode_script_num(Last(Pop(stk))) = decode_script_num(Last(stk))
         IN  Outcome(Append(Pop(Pop(stk)),
                            encode_script_num(IF same THEN BigOf(1) ELSE BigOf(0))),
                     p, None)

OpEqual(p, stk) ==
    IF Len(stk) < 2
    THEN Outcome(stk, p, "OP_EQUAL: stack underflow")
    ELSE LET b == Last(stk)
             a == Last(Pop(stk))
             rest == Pop(Pop(stk))
             res == encode_script_num(IF a = b THEN BigOf(1) ELSE BigOf(0))
         IN  Outcome(Append(rest, res), p, None)

OpAdd(p, stk) ==
    IF Len(stk) < 2
    THEN Outcome(stk, p, "OP_ADD: stack underflow")
    ELSE LET b == decode_script_num(Last(stk))
             a == decode_script_num(Last(Pop(stk)))
             rest == Pop(Pop(stk))
             res == encode_script_num(BigAdd(a, b))
         IN  IF Len(res) > MAX_SCRIPT_ELEMENT_SIZE
             THEN Outcome(rest, p, "OP_ADD: result too large")
             ELSE Outcome(Append(rest, res), p, None)

OpUnknown(p, stk, opcode) ==
    Outcome(stk, p, "Unknown opcode: 0x" \o Hex2(opcode))

(***************************************************************************)
(* Inputs: the scripts and initial stacks execute is called with            *)
(***************************************************************************)
\* Opcode and data bytes the enumerated scripts are made of: the dispatched
\* opcodes, the direct pushes of one and two bytes, and 0x80, which is both
\* an opcode execute does not know and the sign bit as a data byte.
ScriptBytes == {OP_0, 1, 2, OP_VERIFY, OP_DROP, OP_DUP, OP_CAT, 128,
                OP_EQUAL, OP_ADD}

hello == <<104, 101, 108, 108, 111>>
world == <<119, 111, 114, 108, 100>>
Hello == <<72, 101, 108, 108, 111>>
World == <<87, 111, 114, 108, 100>>
max_a == [i \in 1..260 |-> (i - 1) % 256]
max_b == [i \in 1..260 |-> (i - 1 + 128) % 256]
over_a == [i \in 1..261 |-> (i - 1) % 256]
\* The largest positive script number of 520 bytes.
MaxNum == [i \in 1..MAX_SCRIPT_ELEMENT_SIZE |->
              IF i = MAX_SCRIPT_ELEMENT_SIZE THEN 127 ELSE 255]

\* Scripts of main()'s vectors that are longer than MaxScriptLen, and two
\* direct pushes followed by CAT.
VectorScripts ==
    { <<OP_0, 2, 65, 66, OP_0, 2, 67, 68, OP_CAT>>,
      <<1, 1, 1, 2, OP_CAT>>,
      <<OP_DUP, OP_DUP, OP_CAT, OP_CAT>> }

\* The opcodes one of the branches of execute takes.
Dispatched ==
    (0..75) \cup {OP_VERIFY, OP_DROP, OP_DUP, OP_CAT, OP_EQUAL, OP_ADD}

\* Every opcode byte the if/elif chain has no branch for, alone.
UnknownOpcodeScripts == {<<b>> : b \in (0..255) \ Dispatched}

\* Every direct push 0x01..0x4b followed by one byte too few, exactly
\* enough, and one byte more (an OP_DUP that runs after the push).
DirectPushScripts ==
    {<<n>> \o Rep(OP_DUP, n + d) : n \in 1..75, d \in {-1, 0, 1}}

\* Length-prefixed pushes with too few, enough, and one more byte.
LengthPushScripts ==
    {<<OP_0, l>> \o Rep(OP_DUP, l + d) :
        l \in {0, 1, 2, 75, 76, 255}, d \in {-1, 0, 1}}

\* Every byte sequence over ScriptBytes of length at most n.
ScriptsUpTo(n) == UNION {[1..k -> ScriptBytes] : k \in 0..n}

Scripts ==
    ScriptsUpTo(MaxScriptLen) \cup VectorScripts \cup UnknownOpcodeScripts
        \cup DirectPushScripts \cup LengthPushScripts

LimitScripts == ScriptsUpTo(MaxLimitScriptLen) \cup VectorScripts

\* The empty string, one, and negative zero.
SmallElems == {<<>>, <<1>>, <<128>>}

SmallStacks == UNION {[1..n -> SmallElems] : n \in 0..MaxInitDepth}

\* Stacks at the limits: full and nearly full stacks, elements of 260, 261
\* and 520 bytes, and the stacks of main()'s vectors.
LimitStacks ==
    { Rep(<<1>>, MAX_STACK_SIZE), Rep(<<1>>, MAX_STACK_SIZE - 1),
      <<max_a, max_b>>, <<over_a, over_a>>, <<max_a, over_a>>,
      <<MaxNum, <<1>>>>, <<MaxNum, MaxNum>>, <<MaxNum>>,
      <<hello, world>>, <<Hello \o World, Hello, World>>,
      <<<<1>>, <<2>>>>, <<<<127>>, <<1>>>>, <<<<5>>, <<133>>>>,
      <<<<1>>, <<1, 0>>>>, <<<<0>>, <<128>>>>, <<<<0>>>>,
      <<max_a>>, <<over_a>>, <<<<65, 66, 67>>>> }

\* The (script, initial_stack) pairs execute is called with.
Inputs == (Scripts \X SmallStacks) \cup (LimitScripts \X LimitStacks)

(***************************************************************************)
(* The state machine                                                        *)
(***************************************************************************)
\* Nobody calls the codec on its own.
CodecUnused ==
    /\ codec_arg = <<>>
    /\ codec_value = BigZero
    /\ codec_data = <<>>
    /\ codec_phase = "unused"

\* There are no concurrent callers.
ConcUnused ==
    /\ vms = <<>>
    /\ callers = <<>>

\* Nobody computes a sighash.
SigUnused ==
    /\ tx = <<>>
    /\ sig_args = <<>>
    /\ preimage = <<>>
    /\ digest = <<>>
    /\ sig_error = None
    /\ sig_phase = "unused"

\* Nobody calls generate_test_vector, splits a script, or calls _var_int or
\* extract_script_code.
HelpersUnused ==
    /\ gen_args = <<>>
    /\ vector = <<>>
    /\ gen_phase = "unused"
    /\ split = 0
    /\ varint_n = BigZero
    /\ varint_out = <<>>
    /\ varint_error = None
    /\ varint_phase = "unused"
    /\ esc_script_pubkey = <<>>
    /\ esc_witness = <<>>
    /\ esc_result = <<>>
    /\ esc_phase = "unused"

\* BitcoinScriptVM() has been constructed and a caller holds the arguments
\* of execute.
Init ==
    /\ \E input \in Inputs :
          /\ script = input[1]
          /\ initial_stack = input[2]
    /\ stack = <<>>
    /\ error = None
    /\ pc = 0
    /\ phase = "idle"
    /\ result = FALSE
    /\ last_op = -1
    /\ prev_stack = <<>>
    /\ prev_pc = 0
    /\ steps = 0
    /\ calls = 0
    /\ CodecUnused
    /\ ConcUnused
    /\ SigUnused
    /\ HelpersUnused

\* Entry of execute keeping the previous stack when initial_stack is empty.
Call_KeepsStack ==
    /\ phase = "idle"
    /\ stack' = (IF initial_stack # <<>> THEN initial_stack ELSE stack)
    /\ error' = None
    /\ pc' = 0
    /\ phase' = "running"
    /\ calls' = calls + 1
    /\ UNCHANGED <<script, initial_stack, result, last_op, prev_stack,
                   prev_pc, steps>>
    /\ UNCHANGED outside_vm

\* Entry of execute: the stack is a fresh copy of initial_stack.
Call ==
    /\ phase = "idle"
    /\ stack' = (IF initial_stack # <<>> THEN initial_stack ELSE <<>>)
    /\ error' = None
    /\ pc' = 0
    /\ phase' = "running"
    /\ calls' = calls + 1
    /\ UNCHANGED <<script, initial_stack, result, last_op, prev_stack,
                   prev_pc, steps>>
    /\ UNCHANGED outside_vm

\* The while condition fails: return True.
Halt ==
    /\ phase = "running"
    /\ ~(pc < Len(script))
    /\ phase' = "returned"
    /\ result' = TRUE
    /\ UNCHANGED <<script, initial_stack, stack, error, pc, last_op,
                   prev_stack, prev_pc, steps, calls>>
    /\ UNCHANGED outside_vm

\* The except branch returning False without recording the message.
Finish_ErrorNotRecorded(opcode, r) ==
    /\ stack' = r.stack
    /\ pc' = r.pc
    /\ IF r.error = None
       THEN UNCHANGED <<error, phase, result>>
       ELSE /\ error' = error
            /\ phase' = "returned"
            /\ result' = FALSE
    /\ last_op' = opcode
    /\ prev_stack' = stack
    /\ prev_pc' = pc
    /\ steps' = steps + 1
    /\ UNCHANGED <<script, initial_stack, calls>>
    /\ UNCHANGED outside_vm

\* The opcode at pc has run with outcome r: continue the loop, or record the
\* ScriptError and return False.
Finish(opcode, r) ==
    /\ stack' = r.stack
    /\ pc' = r.pc
    /\ IF r.error = None
       THEN UNCHANGED <<error, phase, result>>
       ELSE /\ error' = r.error
            /\ phase' = "returned"
            /\ result' = FALSE
    /\ last_op' = opcode
    /\ prev_stack' = stack
    /\ prev_pc' = pc
    /\ steps' = steps + 1
    /\ UNCHANGED <<script, initial_stack, calls>>
    /\ UNCHANGED outside_vm

\* The loop condition holds; opcode = script[pc].
Fetching == phase = "running" /\ pc < Len(script)

Opcode == script[pc + 1]

StepDirectPush ==
    /\ Fetching
    /\ 1 <= Opcode /\ Opcode <= 75
    /\ Finish(Opcode, OpDirectPush(script, pc + 1, stack, Opcode))

StepPush ==
    /\ Fetching
    /\ Opcode = OP_0
    /\ Finish(Opcode, OpPush(script, pc + 1, stack))

StepVerify ==
    /\ Fetching
    /\ Opcode = OP_VERIFY
    /\ Finish(Opcode, OpVerify(pc + 1, stack))

StepDrop ==
    /\ Fetching
    /\ Opcode = OP_DROP
    /\ Finish(Opcode, OpDrop(pc + 1, stack))

StepDup ==
    /\ Fetching
    /\ Opcode = OP_DUP
    /\ Finish(Opcode, OpDup(pc + 1, stack))

StepCat ==
    /\ Fetching
    /\ Opcode = OP_CAT
    /\ Finish(Opcode, OpCat(pc + 1, stack))

StepEqual ==
    /\ Fetching
    /\ Opcode = OP_EQUAL
    /\ Finish(Opcode, OpEqual(pc + 1, stack))

StepAdd ==
    /\ Fetching
    /\ Opcode = OP_ADD
    /\ Finish(Opcode, OpAdd(pc + 1, stack))

\* The final raise with OP_NOP (0x61) accepted as a no-op.
StepUnknown_NopAccepted ==
    /\ Fetching
    /\ Opcode \notin Dispatched
    /\ Finish(Opcode, IF Opcode = 97
                      THEN Outcome(stack, pc + 1, None)
                      ELSE OpUnknown(pc + 1, stack, Opcode))

StepUnknown ==
    /\ Fetching
    /\ Opcode \notin Dispatched
    /\ Finish(Opcode, OpUnknown(pc + 1, stack, Opcode))

Next ==
    \/ Call
    \/ Halt
    \/ StepDirectPush
    \/ StepPush
    \/ StepVerify
    \/ StepDrop
    \/ StepDup
    \/ StepCat
    \/ StepEqual
    \/ StepAdd
    \/ StepUnknown

Spec == Init /\ [][Next]_vars

(***************************************************************************)
(* The script-number codec called on its own: encode_script_num on an       *)
(* integer and decode_script_num on its result, or decode_script_num on a   *)
(* byte string and encode_script_num on its result.                         *)
(***************************************************************************)
\* No BitcoinScriptVM takes part.
VMUnused ==
    /\ script = <<>>
    /\ initial_stack = <<>>
    /\ stack = <<>>
    /\ error = None
    /\ pc = 0
    /\ phase = "unused"
    /\ result = FALSE
    /\ last_op = -1
    /\ prev_stack = <<>>
    /\ prev_pc = 0
    /\ steps = 0
    /\ calls = 0

\* Magnitudes around the points where the encoding grows by a byte.
BoundaryInts ==
    {32767, 32768, 65535, 65536, 8388607, 8388608, 16777215, 16777216,
     2147483647}

\* The integers encode_script_num is called with: every n with
\* |n| <= MaxCodecInt, the boundary magnitudes with both signs, and the
\* largest 520-byte number and its successor.
CodecValues ==
    {BigOf(n) : n \in (0 - MaxCodecInt)..MaxCodecInt}
        \cup {BigOf(n) : n \in BoundaryInts}
        \cup {BigNeg(BigOf(n)) : n \in BoundaryInts}
        \cup {decode_script_num(MaxNum),
              BigAdd(decode_script_num(MaxNum), BigOf(1))}

CodecBytes == {0, 1, 127, 128, 129, 255}

\* The byte strings decode_script_num is called with: every string over
\* CodecBytes of at most MaxCodecLen bytes, and 520-byte strings: the largest
\* number, the smallest, zero padded to 520 bytes and negative zero.
CodecStrings ==
    UNION {[1..k -> CodecBytes] : k \in 0..MaxCodecLen}
        \cup {MaxNum, Rep(255, MAX_SCRIPT_ELEMENT_SIZE),
              Rep(0, MAX_SCRIPT_ELEMENT_SIZE),
              [i \in 1..MAX_SCRIPT_ELEMENT_SIZE |->
                  IF i = MAX_SCRIPT_ELEMENT_SIZE THEN 128 ELSE 0]}

CodecInit ==
    /\ VMUnused
    /\ ConcUnused
    /\ SigUnused
    /\ \/ /\ codec_phase = "value"
          /\ codec_arg \in CodecValues
          /\ codec_value = codec_arg
          /\ codec_data = <<>>
       \/ /\ codec_phase = "data"
          /\ codec_arg \in CodecStrings
          /\ codec_data = codec_arg
          /\ codec_value = BigZero
    /\ HelpersUnused

\* encode_script_num(codec_arg)
EncodeValue ==
    /\ codec_phase = "value"
    /\ codec_data' = encode_script_num(codec_value)
    /\ codec_phase' = "encoded"
    /\ UNCHANGED <<codec_arg, codec_value, outside_codec>>

\* decode_script_num(encode_script_num(codec_arg))
DecodeEncoded ==
    /\ codec_phase = "encoded"
    /\ codec_value' = decode_script_num(codec_data)
    /\ codec_phase' = "value_round_trip"
    /\ UNCHANGED <<codec_arg, codec_data, outside_codec>>

\* decode_script_num(codec_arg)
DecodeData ==
    /\ codec_phase = "data"
    /\ codec_value' = decode_script_num(codec_data)
    /\ codec_phase' = "decoded"
    /\ UNCHANGED <<codec_arg, codec_data, outside_codec>>

\* encode_script_num(decode_script_num(codec_arg))
EncodeDecoded ==
    /\ codec_phase = "decoded"
    /\ codec_data' = encode_script_num(codec_value)
    /\ codec_phase' = "data_round_trip"
    /\ UNCHANGED <<codec_arg, codec_value, outside_codec>>

CodecNext == EncodeValue \/ DecodeEncoded \/ DecodeData \/ EncodeDecoded

CodecSpec == CodecInit /\ [][CodecNext]_vars

(***************************************************************************)
(* One BitcoinScriptVM used for several execute calls, as main() does.      *)
(***************************************************************************)
\* One loop iteration at pc = p (the opcode byte not yet read) on stack stk.
BranchOutcome(scr, p, stk) ==
    LET opcode == scr[p + 1]
    IN  IF 1 <= opcode /\ opcode <= 75
        THEN OpDirectPush(scr, p + 1, stk, opcode)
        ELSE IF opcode = OP_0 THEN OpPush(scr, p + 1, stk)
        ELSE IF opcode = OP_VERIFY THEN OpVerify(p + 1, stk)
        ELSE IF opcode = OP_DROP THEN OpDrop(p + 1, stk)
        ELSE IF opcode = OP_DUP THEN OpDup(p + 1, stk)
        ELSE IF opcode = OP_CAT THEN OpCat(p + 1, stk)
        ELSE IF opcode = OP_EQUAL THEN OpEqual(p + 1, stk)
        ELSE IF opcode = OP_ADD THEN OpAdd(p + 1, stk)
        ELSE OpUnknown(p + 1, stk, opcode)

\* The loop of execute from pc = p on stack stk, run to its return.
RECURSIVE RunLoop(_, _, _)
RunLoop(scr, p, stk) ==
    IF ~(p < Len(scr))
    THEN [result |-> TRUE, stack |-> stk, error |-> None]
    ELSE LET r == BranchOutcome(scr, p, stk)
         IN  IF r.error # None
             THEN [result |-> FALSE, stack |-> r.stack, error |-> r.error]
             ELSE RunLoop(scr, r.pc, r.stack)

\* BitcoinScriptVM().execute(scr, init): the returned flag and the fields of
\* the instance after the call.
FreshOutcome(scr, init) ==
    RunLoop(scr, 0, IF init # <<>> THEN init ELSE <<>>)

ReuseScripts ==
    ScriptsUpTo(MaxReuseScriptLen) \cup VectorScripts
        \cup {<<1, 1>>, <<OP_DUP, OP_CAT>>, <<OP_CAT, OP_EQUAL>>,
              <<1, 0, OP_VERIFY>>}

ReuseStacks ==
    {<<>>, << <<1>> >>, << <<>> >>, << <<1>>, <<2>> >>, <<hello, world>>}

ReuseInputs == ReuseScripts \X ReuseStacks

\* A fresh BitcoinScriptVM and the arguments of the first call.
ReuseInit ==
    /\ \E input \in ReuseInputs :
          /\ script = input[1]
          /\ initial_stack = input[2]
    /\ stack = <<>>
    /\ error = None
    /\ pc = 0
    /\ phase = "idle"
    /\ result = FALSE
    /\ last_op = -1
    /\ prev_stack = <<>>
    /\ prev_pc = 0
    /\ steps = 0
    /\ calls = 0
    /\ CodecUnused
    /\ ConcUnused
    /\ SigUnused
    /\ HelpersUnused

\* After a call has returned the caller prepares the arguments of the next
\* call on the same instance, whose fields are as the last call left them.
Recall ==
    /\ phase = "returned"
    /\ calls < MaxCalls
    /\ \E input \in ReuseInputs :
          /\ script' = input[1]
          /\ initial_stack' = input[2]
    /\ phase' = "idle"
    /\ result' = FALSE
    /\ pc' = 0
    /\ last_op' = -1
    /\ prev_stack' = <<>>
    /\ prev_pc' = 0
    /\ steps' = 0
    /\ UNCHANGED <<stack, error, calls>>
    /\ UNCHANGED outside_vm

ReuseNext ==
    \/ Call
    \/ Halt
    \/ StepDirectPush
    \/ StepPush
    \/ StepVerify
    \/ StepDrop
    \/ StepDup
    \/ StepCat
    \/ StepEqual
    \/ StepAdd
    \/ StepUnknown
    \/ Recall

ReuseSpec == ReuseInit /\ [][ReuseNext]_vars

(***************************************************************************)
(* Two callers, each in vm.execute(script, initial_stack) followed by the   *)
(* reads of vm.stack and vm.error that generate_test_vector makes, on two   *)
(* instances or on the same one (main() hands its one vm to every call).    *)
(* A step of a caller is one loop iteration of its execute.                 *)
(***************************************************************************)
ConcScripts ==
    {<<>>, <<OP_CAT>>, <<OP_DUP, OP_CAT>>, <<1, 1, OP_VERIFY>>, <<OP_ADD>>,
     <<128>>}

ConcStacks == {<<>>, <<hello, world>>, << <<1>>, <<2>> >>}

ConcInputs == ConcScripts \X ConcStacks

NewCaller(v, input) ==
    [vm |-> v, script |-> input[1], initial_stack |-> input[2], pc |-> 0,
     phase |-> "idle", success |-> FALSE, seen_stack |-> <<>>,
     seen_error |-> None]

ConcInit ==
    /\ VMUnused
    /\ CodecUnused
    /\ SigUnused
    /\ vms = [i \in 1..2 |-> [stack |-> <<>>, error |-> None]]
    /\ \E in1 \in ConcInputs, in2 \in ConcInputs, v \in 1..2 :
          callers = <<NewCaller(1, in1), NewCaller(v, in2)>>
    /\ HelpersUnused

\* Entry of execute in caller c.
CallerCall ==
    \E c \in 1..2 :
        LET me == callers[c]
        IN  /\ me.phase = "idle"
            /\ vms' = [vms EXCEPT ![me.vm] =
                          [stack |-> (IF me.initial_stack # <<>>
                                      THEN me.initial_stack ELSE <<>>),
                           error |-> None]]
            /\ callers' = [callers EXCEPT ![c].pc = 0,
                                          ![c].phase = "running"]
            /\ UNCHANGED outside_conc

\* One loop iteration of caller c's execute, on the stack its instance
\* holds now.
CallerStep ==
    \E c \in 1..2 :
        LET me == callers[c]
            r == BranchOutcome(me.script, me.pc, vms[me.vm].stack)
        IN  /\ me.phase = "running"
            /\ me.pc < Len(me.script)
            /\ IF r.error = None
               THEN /\ vms' = [vms EXCEPT ![me.vm].stack = r.stack]
                    /\ callers' = [callers EXCEPT ![c].pc = r.pc]
               ELSE /\ vms' = [vms EXCEPT ![me.vm] =
                                  [stack |-> r.stack, error |-> r.error]]
                    /\ callers' = [callers EXCEPT ![c].pc = r.pc,
                                                  ![c].phase = "returned",
                                                  ![c].success = FALSE]
            /\ UNCHANGED outside_conc

\* Caller c's loop ends: execute returns True.
CallerHalt ==
    \E c \in 1..2 :
        LET me == callers[c]
        IN  /\ me.phase = "running"
            /\ ~(me.pc < Len(me.script))
            /\ callers' = [callers EXCEPT ![c].phase = "returned",
                                          ![c].success = TRUE]
            /\ UNCHANGED <<vms, outside_conc>>

\* Caller c reads vm.stack and vm.error after its call has returned.
CallerRead ==
    \E c \in 1..2 :
        LET me == callers[c]
        IN  /\ me.phase = "returned"
            /\ callers' = [callers EXCEPT
                              ![c].phase = "done",
                              ![c].seen_stack = vms[me.vm].stack,
                              ![c].seen_error = vms[me.vm].error]
            /\ UNCHANGED <<vms, outside_conc>>

ConcNext == CallerCall \/ CallerStep \/ CallerHalt \/ CallerRead

ConcSpec == ConcInit /\ [][ConcNext]_vars

(***************************************************************************)
(* Transaction.serialize_for_sighash and compute_sighash                    *)
(* (scripts/fetch_signet_tx.py).                                            *)
(*                                                                         *)
(* A byte string built here is a sequence of items: <<b>> is the byte b,    *)
(* and <<"sha256", m>> is the 32-byte digest hashlib.sha256(m).digest() of  *)
(* the byte string m, kept as a term because all that is known of SHA-256   *)
(* is that equal messages give equal digests of 32 bytes.                   *)
(***************************************************************************)
SHA256_DIGEST_SIZE == 32

\* A bytes object whose bytes are all known.
Raw(s) == [i \in 1..Len(s) |-> <<s[i]>>]

\* hashlib.sha256(m).digest()
sha256(m) == << <<"sha256", m>> >>

\* len() of a byte string of items.
ByteLen(s) ==
    Len(s) + (SHA256_DIGEST_SIZE - 1)
                * Cardinality({i \in 1..Len(s) : Len(s[i]) = 2})

\* s[::-1]
Reversed(s) == [i \in 1..Len(s) |-> s[Len(s) + 1 - i]]

\* The concatenation of the byte strings f[1], ..., f[n].
RECURSIVE Concat(_, _)
Concat(f, n) == IF n = 0 THEN <<>> ELSE Concat(f, n - 1) \o f[n]

\* struct.pack('<I', v) (width 4), '<H' (2), '<Q' (8) accept 0 <= v < 256^width
\* and raise struct.error otherwise.
Packable(width, v) == ~v.neg /\ Len(v.mag) <= width

\* struct.pack of a packable v: its width little-endian bytes.
pack(width, v) == [i \in 1..width |-> Digit(v.mag, i)]

\* What Transaction._var_int(n) raises: bytes([n]) rejects a negative n,
\* struct.pack('<Q', n) an n of more than 8 bytes.
VarIntRaises(n) ==
    IF n.neg THEN "ValueError"
    ELSE IF ~Packable(8, n) THEN "struct.error"
    ELSE None

\* _var_int taking the single-byte form up to and including 0xfd.
var_int_InclusiveFd(n) ==
    IF Len(n.mag) <= 1 /\ Digit(n.mag, 1) <= 253 THEN <<Digit(n.mag, 1)>>
    ELSE IF Len(n.mag) <= 2 THEN <<253>> \o pack(2, n)
    ELSE IF Len(n.mag) <= 4 THEN <<254>> \o pack(4, n)
    ELSE <<255>> \o pack(8, n)

\* Transaction._var_int(n) for 0 <= n < 2^64.
var_int(n) ==
    IF Len(n.mag) <= 1 /\ Digit(n.mag, 1) < 253 THEN <<Digit(n.mag, 1)>>
    ELSE IF Len(n.mag) <= 2 THEN <<253>> \o pack(2, n)
    ELSE IF Len(n.mag) <= 4 THEN <<254>> \o pack(4, n)
    ELSE <<255>> \o pack(8, n)

\* self.inputs[input_index] exists: Python also takes -len..-1, counting
\* from the end.
IndexInRange(n, input_index) == 0 - n <= input_index /\ input_index < n

\* The position in 1..n of self.inputs[input_index].
Selected(n, input_index) ==
    IF input_index >= 0 THEN input_index + 1 ELSE n + input_index + 1

\* The exception serialize_for_sighash raises, None if it returns.  The
\* statements are run in order, so a struct.error of nVersion, hashPrevouts or
\* hashSequence comes before the IndexError of self.inputs[input_index].
SerializeRaises(t, args) ==
    IF \/ ~Packable(4, t.version)
       \/ \E i \in 1..Len(t.inputs) : ~Packable(4, t.inputs[i].vout)
       \/ \E i \in 1..Len(t.inputs) : ~Packable(4, t.inputs[i].sequence)
    THEN "struct.error"
    ELSE IF ~IndexInRange(Len(t.inputs), args.input_index)
    THEN "IndexError"
    ELSE IF \/ ~Packable(8, args.value)
            \/ \E i \in 1..Len(t.outputs) : ~Packable(8, t.outputs[i].value)
            \/ ~Packable(4, t.locktime)
            \/ ~Packable(4, args.sighash_type)
    THEN "struct.error"
    ELSE None

\* serialize_for_sighash hashing only the signed input's sequence into
\* hashSequence.
serialize_for_sighash_OwnSequenceOnly(t, args) ==
    LET inp == t.inputs[Selected(Len(t.inputs), args.input_index)]
        prevouts == Concat([i \in 1..Len(t.inputs) |->
                              Raw(Reversed(t.inputs[i].txid))
                                  \o Raw(pack(4, t.inputs[i].vout))],
                           Len(t.inputs))
        sequences == Raw(pack(4, inp.sequence))
        outputs == Concat([i \in 1..Len(t.outputs) |->
                             Raw(pack(8, t.outputs[i].value))
                                 \o Raw(var_int(BigOf(
                                          Len(t.outputs[i].script_pubkey))))
                                 \o Raw(t.outputs[i].script_pubkey)],
                          Len(t.outputs))
    IN  Raw(pack(4, t.version))
            \o sha256(sha256(prevouts))
            \o sha256(sha256(sequences))
            \o Raw(Reversed(inp.txid)) \o Raw(pack(4, inp.vout))
            \o Raw(var_int(BigOf(Len(args.script_code))))
            \o Raw(args.script_code)
            \o Raw(pack(8, args.value))
            \o Raw(pack(4, inp.sequence))
            \o sha256(sha256(outputs))
            \o Raw(pack(4, t.locktime))
            \o Raw(pack(4, args.sighash_type))

\* The preimage serialize_for_sighash returns when it raises nothing.  With
\* the selected input's sequence in the place of the value and the value in
\* the place of the sequence.
serialize_for_sighash_SequenceBeforeValue(t, args) ==
    LET inp == t.inputs[Selected(Len(t.inputs), args.input_index)]
        prevouts == Concat([i \in 1..Len(t.inputs) |->
                              Raw(Reversed(t.inputs[i].txid))
                                  \o Raw(pack(4, t.inputs[i].vout))],
                           Len(t.inputs))
        sequences == Concat([i \in 1..Len(t.inputs) |->
                               Raw(pack(4, t.inputs[i].sequence))],
                            Len(t.inputs))
        outputs == Concat([i \in 1..Len(t.outputs) |->
                             Raw(pack(8, t.outputs[i].value))
                                 \o Raw(var_int(BigOf(
                                          Len(t.outputs[i].script_pubkey))))
                                 \o Raw(t.outputs[i].script_pubkey)],
                          Len(t.outputs))
    IN  Raw(pack(4, t.version))
            \o sha256(sha256(prevouts))
            \o sha256(sha256(sequences))
            \o Raw(Reversed(inp.txid)) \o Raw(pack(4, inp.vout))
            \o Raw(var_int(BigOf(Len(args.script_code))))
            \o Raw(args.script_code)
            \o Raw(pack(4, inp.sequence))
            \o Raw(pack(8, args.value))
            \o sha256(sha256(outputs))
            \o Raw(pack(4, t.locktime))
            \o Raw(pack(4, args.sighash_type))

\* The preimage serialize_for_sighash returns when it raises nothing.
serialize_for_sighash(t, args) ==
    LET inp == t.inputs[Selected(Len(t.inputs), args.input_index)]
        prevouts == Concat([i \in 1..Len(t.inputs) |->
                              Raw(Reversed(t.inputs[i].txid))
                                  \o Raw(pack(4, t.inputs[i].vout))],
                           Len(t.inputs))
        sequences == Concat([i \in 1..Len(t.inputs) |->
                               Raw(pack(4, t.inputs[i].sequence))],
                            Len(t.inputs))
        outputs == Concat([i \in 1..Len(t.outputs) |->
                             Raw(pack(8, t.outputs[i].value))
                                 \o Raw(var_int(BigOf(
                                          Len(t.outputs[i].script_pubkey))))
                                 \o Raw(t.outputs[i].script_pubkey)],
                          Len(t.outputs))
    IN  Raw(pack(4, t.version))
            \o sha256(sha256(prevouts))
            \o sha256(sha256(sequences))
            \o Raw(Reversed(inp.txid)) \o Raw(pack(4, inp.vout))
            \o Raw(var_int(BigOf(Len(args.script_code))))
            \o Raw(args.script_code)
            \o Raw(pack(8, args.value))
            \o Raw(pack(4, inp.sequence))
            \o sha256(sha256(outputs))
            \o Raw(pack(4, t.locktime))
            \o Raw(pack(4, args.sighash_type))

\* 2^32 - 1, 2^32 - 2, 2^32 and 2^64 - 1 as Python integers.
U32Max == [neg |-> FALSE, mag |-> <<255, 255, 255, 255>>]
U32MaxLessOne == [neg |-> FALSE, mag |-> <<254, 255, 255, 255>>]
TwoTo32 == [neg |-> FALSE, mag |-> <<0, 0, 0, 0, 1>>]
U64Max == [neg |-> FALSE, mag |-> Rep(255, 8)]

\* The TxInput and TxOutput objects of the transactions.
TxInputs ==
    { [txid |-> [i \in 1..32 |-> i], vout |-> BigOf(1), script_sig |-> <<>>,
       sequence |-> U32MaxLessOne, witness |-> <<>>],
      [txid |-> Rep(171, 32), vout |-> U32Max, script_sig |-> <<>>,
       sequence |-> BigOf(0), witness |-> <<>>] }

TxOutputs ==
    { [value |-> BigOf(100000),
       script_pubkey |-> <<0, 20>> \o Rep(17, 20)],
      [value |-> U64Max, script_pubkey |-> <<>>] }

\* Transactions with at most MaxTxInputs inputs and MaxTxOutputs outputs;
\* version 2^32 does not fit its four bytes.
Transactions ==
    { [version |-> v, inputs |-> ins, outputs |-> outs, locktime |-> lt] :
        v \in {BigOf(2), TwoTo32},
        ins \in UNION {[1..n -> TxInputs] : n \in 0..MaxTxInputs},
        outs \in UNION {[1..n -> TxOutputs] : n \in 0..MaxTxOutputs},
        lt \in {BigOf(0), BigOf(500000)} }

\* Script codes of 0, 25, 252 and 253 bytes (the last takes a three-byte
\* var_int).
ScriptCodes ==
    { <<>>, <<118, 169, 20>> \o Rep(17, 20) \o <<136, 172>>,
      Rep(OP_CAT, 252), Rep(OP_CAT, 253) }

\* The arguments of compute_sighash: every index from one below -len(inputs)
\* to one above len(inputs) - 1; the value -1 does not fit its eight bytes.
SighashArgs ==
    { [input_index |-> ix, script_code |-> sc, value |-> val,
       sighash_type |-> ty] :
        ix \in (0 - MaxTxInputs - 1)..MaxTxInputs,
        sc \in ScriptCodes,
        val \in {BigOf(100000), U64Max, BigOf(-1)},
        ty \in {BigOf(1), BigOf(129)} }

SigInit ==
    /\ VMUnused
    /\ CodecUnused
    /\ ConcUnused
    /\ tx \in Transactions
    /\ sig_args \in SighashArgs
    /\ preimage = <<>>
    /\ digest = <<>>
    /\ sig_error = None
    /\ sig_phase = "called"
    /\ HelpersUnused

\* serialize_for_sighash runs to its return.
Serialize ==
    /\ sig_phase = "called"
    /\ SerializeRaises(tx, sig_args) = None
    /\ preimage' = serialize_for_sighash(tx, sig_args)
    /\ sig_phase' = "serialized"
    /\ UNCHANGED <<tx, sig_args, digest, sig_error, outside_sig>>

\* serialize_for_sighash raises; compute_sighash lets the exception through.
SerializeFails ==
    /\ sig_phase = "called"
    /\ SerializeRaises(tx, sig_args) # None
    /\ sig_error' = SerializeRaises(tx, sig_args)
    /\ sig_phase' = "raised"
    /\ UNCHANGED <<tx, sig_args, preimage, digest, outside_sig>>

\* compute_sighash hashes the preimage twice.
HashPreimage ==
    /\ sig_phase = "serialized"
    /\ digest' = sha256(sha256(preimage))
    /\ sig_phase' = "hashed"
    /\ UNCHANGED <<tx, sig_args, preimage, sig_error, outside_sig>>

SigNext == Serialize \/ SerializeFails \/ HashPreimage

SigSpec == SigInit /\ [][SigNext]_vars

(***************************************************************************)
(* Transaction._var_int called on its own.                                  *)
(***************************************************************************)
\* The arguments: every integer up to MaxVarInt, and the integers around the
\* boundaries of the four forms; the last is 2^64.
VarIntArgs ==
    {BigOf(n) : n \in -1..MaxVarInt}
        \cup {BigOf(n) : n \in {65534, 65535, 65536, 65537, 16777215, 16777216}}
        \cup {U32MaxLessOne, U32Max, TwoTo32,
              [neg |-> FALSE, mag |-> <<1, 0, 0, 0, 1>>],
              [neg |-> FALSE, mag |-> <<1, 2, 3, 4, 5, 6, 7>>],
              [neg |-> FALSE, mag |-> <<254>> \o Rep(255, 7)],
              U64Max, [neg |-> FALSE, mag |-> Rep(0, 8) \o <<1>>]}

VarIntInit ==
    /\ varint_n \in VarIntArgs
    /\ varint_out = <<>>
    /\ varint_error = None
    /\ varint_phase = "called"
    /\ gen_args = <<>>
    /\ vector = <<>>
    /\ gen_phase = "unused"
    /\ split = 0
    /\ esc_script_pubkey = <<>>
    /\ esc_witness = <<>>
    /\ esc_result = <<>>
    /\ esc_phase = "unused"
    /\ VMUnused
    /\ CodecUnused
    /\ ConcUnused
    /\ SigUnused

\* _var_int(varint_n) returns.
VarIntReturns ==
    /\ varint_phase = "called"
    /\ VarIntRaises(varint_n) = None
    /\ varint_out' = var_int(varint_n)
    /\ varint_phase' = "returned"
    /\ UNCHANGED <<varint_n, varint_error, outside_varint>>

\* _var_int(varint_n) raises.
VarIntFails ==
    /\ varint_phase = "called"
    /\ VarIntRaises(varint_n) # None
    /\ varint_error' = VarIntRaises(varint_n)
    /\ varint_phase' = "raised"
    /\ UNCHANGED <<varint_n, varint_out, outside_varint>>

VarIntNext == VarIntReturns \/ VarIntFails

VarIntSpec == VarIntInit /\ [][VarIntNext]_vars

(***************************************************************************)
(* extract_script_code called on its own.                                   *)
(***************************************************************************)
\* extract_script_code returning the first witness element for P2WSH.
extract_script_code_FirstWitness(script_pubkey, witness) ==
    IF Len(script_pubkey) = 22 /\ script_pubkey[1] = 0 /\ script_pubkey[2] = 20
    THEN <<118, 169, 20>> \o SubSeq(script_pubkey, 3, 22) \o <<136, 172>>
    ELSE IF /\ Len(script_pubkey) = 34
            /\ script_pubkey[1] = 0
            /\ script_pubkey[2] = 32
            /\ witness # <<>>
    THEN witness[1]
    ELSE script_pubkey

\* extract_script_code(script_pubkey, witness)
extract_script_code(script_pubkey, witness) ==
    IF Len(script_pubkey) = 22 /\ script_pubkey[1] = 0 /\ script_pubkey[2] = 20
    THEN <<118, 169, 20>> \o SubSeq(script_pubkey, 3, 22) \o <<136, 172>>
    ELSE IF /\ Len(script_pubkey) = 34
            /\ script_pubkey[1] = 0
            /\ script_pubkey[2] = 32
            /\ witness # <<>>
    THEN witness[Len(witness)]
    ELSE script_pubkey

\* A witness program: the two leading bytes and n more bytes 1, 2, .., n.
Program(first, second, n) == <<first, second>> \o [i \in 1..n |-> i]

\* The script_pubkey arguments: the two segwit patterns, and scripts that
\* miss them by the version byte, the push byte or the length.
ScriptPubkeys ==
    {Program(v, l, n) : v \in {0, 1}, l \in {20, 32}, n \in {19, 20, 21, 31, 32, 33}}
        \cup {<<>>, <<0>>, <<0, 20>>, <<0, 32>>, <<118, 169, 20>>}

\* The witness arguments of at most n elements.
RECURSIVE WitnessesUpTo(_)
WitnessesUpTo(n) ==
    IF n = 0 THEN {<<>>}
    ELSE LET shorter == WitnessesUpTo(n - 1)
         IN  shorter \cup {Append(w, e) : w \in shorter,
                                         e \in {<<>>, <<81>>, <<1, 1, 135>>}}

EscInit ==
    /\ esc_script_pubkey \in ScriptPubkeys
    /\ esc_witness \in WitnessesUpTo(MaxWitnessLen)
    /\ esc_result = <<>>
    /\ esc_phase = "called"
    /\ gen_args = <<>>
    /\ vector = <<>>
    /\ gen_phase = "unused"
    /\ split = 0
    /\ varint_n = BigZero
    /\ varint_out = <<>>
    /\ varint_error = None
    /\ varint_phase = "unused"
    /\ VMUnused
    /\ CodecUnused
    /\ ConcUnused
    /\ SigUnused

\* extract_script_code(esc_script_pubkey, esc_witness) returns.
EscReturns ==
    /\ esc_phase = "called"
    /\ esc_result' = extract_script_code(esc_script_pubkey, esc_witness)
    /\ esc_phase' = "returned"
    /\ UNCHANGED <<esc_script_pubkey, esc_witness, outside_esc>>

EscNext == EscReturns

EscSpec == EscInit /\ [][EscNext]_vars

(***************************************************************************)
(* generate_test_vector called several times with the same BitcoinScriptVM, *)
(* as main() does.                                                          *)
(***************************************************************************)
\* bytes.hex(): two lowercase hexadecimal digits per byte, as a sequence of
\* characters.
hex(s) ==
    [i \in 1..(2 * Len(s)) |->
        IF i % 2 = 1 THEN HexDigit[(s[(i + 1) \div 2] \div 16) + 1]
        ELSE HexDigit[(s[i \div 2] % 16) + 1]]

\* generate_test_vector listing vm.stack from the top down.
generate_test_vector_StackTopFirst(name, description, init, scr, success, vm_stack, vm_error) ==
    LET vec == [name |-> name,
                description |-> description,
                initial_stack |-> [i \in 1..Len(init) |-> hex(init[i])],
                script |-> hex(scr)]
    IN  IF success
        THEN vec @@ ("expected_final_stack" :>
                        [i \in 1..Len(vm_stack) |->
                            hex(vm_stack[Len(vm_stack) + 1 - i])])
        ELSE vec @@ ("expected_error" :> vm_error)

\* The dict generate_test_vector returns once vm.execute(script,
\* initial_stack) has returned success and left vm.stack and vm.error.
generate_test_vector(name, description, init, scr, success, vm_stack, vm_error) ==
    LET vec == [name |-> name,
                description |-> description,
                initial_stack |-> [i \in 1..Len(init) |-> hex(init[i])],
                script |-> hex(scr)]
    IN  IF success
        THEN vec @@ ("expected_final_stack" :>
                        [i \in 1..Len(vm_stack) |-> hex(vm_stack[i])])
        ELSE vec @@ ("expected_error" :> vm_error)

\* The name and description arguments.
GenArgs ==
    { [name |-> "cat_hello_world",
       description |-> "Concatenate 'hello' and 'world'"] }

\* main() has constructed the BitcoinScriptVM and calls generate_test_vector
\* for the first time.
GenInit ==
    /\ \E input \in ReuseInputs :
          /\ script = input[1]
          /\ initial_stack = input[2]
    /\ stack = <<>>
    /\ error = None
    /\ pc = 0
    /\ phase = "idle"
    /\ result = FALSE
    /\ last_op = -1
    /\ prev_stack = <<>>
    /\ prev_pc = 0
    /\ steps = 0
    /\ calls = 0
    /\ gen_args \in GenArgs
    /\ vector = <<>>
    /\ gen_phase = "calling"
    /\ split = 0
    /\ varint_n = BigZero
    /\ varint_out = <<>>
    /\ varint_error = None
    /\ varint_phase = "unused"
    /\ esc_script_pubkey = <<>>
    /\ esc_witness = <<>>
    /\ esc_result = <<>>
    /\ esc_phase = "unused"
    /\ CodecUnused
    /\ ConcUnused
    /\ SigUnused

\* vm.execute has returned: generate_test_vector builds the dict and
\* returns it.
BuildVector ==
    /\ gen_phase = "calling"
    /\ phase = "returned"
    /\ vector' = generate_test_vector(gen_args.name, gen_args.description,
                                      initial_stack, script, result,
                                      stack, error)
    /\ gen_phase' = "returned"
    /\ UNCHANGED <<gen_args, outside_gen>>

\* main() calls generate_test_vector again with the same vm.
NextVector ==
    /\ gen_phase = "returned"
    /\ calls < MaxCalls
    /\ \E input \in ReuseInputs :
          /\ script' = input[1]
          /\ initial_stack' = input[2]
    /\ gen_args' \in GenArgs
    /\ vector' = <<>>
    /\ gen_phase' = "calling"
    /\ phase' = "idle"
    /\ result' = FALSE
    /\ pc' = 0
    /\ last_op' = -1
    /\ prev_stack' = <<>>
    /\ prev_pc' = 0
    /\ steps' = 0
    /\ UNCHANGED <<stack, error, calls>>
    /\ UNCHANGED <<codec_vars, conc_vars, sig_vars, split,
                   varint_vars, esc_vars>>

GenNext ==
    \/ Call
    \/ Halt
    \/ StepDirectPush
    \/ StepPush
    \/ StepVerify
    \/ StepDrop
    \/ StepDup
    \/ StepCat
    \/ StepEqual
    \/ StepAdd
    \/ StepUnknown
    \/ BuildVector
    \/ NextVector

GenSpec == GenInit /\ [][GenNext]_vars

(***************************************************************************)
(* execute called on scripts that test their operands: OP_VERIFY alone,     *)
(* OP_EQUAL alone, and OP_EQUAL followed by OP_VERIFY.                      *)
(***************************************************************************)
TruthScripts == {<<OP_VERIFY>>, <<OP_EQUAL>>, <<OP_EQUAL, OP_VERIFY>>}

\* One operand: the byte strings of the codec's callers and the encodings
\* of their integers.  Two operands: equal strings, different strings, and
\* different strings that decode to the same number.
TruthStacks ==
    LET pair == {<<>>, <<0>>, <<128>>, <<1>>, <<1, 0>>, <<129>>, hello, world}
    IN  {<<>>} \cup {<<x>> : x \in CodecStrings}
            \cup {<<encode_script_num(n)>> : n \in CodecValues}
            \cup {<<a, b>> : a \in pair, b \in pair}

TruthInit ==
    /\ script \in TruthScripts
    /\ initial_stack \in TruthStacks
    /\ stack = <<>>
    /\ error = None
    /\ pc = 0
    /\ phase = "idle"
    /\ result = FALSE
    /\ last_op = -1
    /\ prev_stack = <<>>
    /\ prev_pc = 0
    /\ steps = 0
    /\ calls = 0
    /\ CodecUnused
    /\ ConcUnused
    /\ SigUnused
    /\ HelpersUnused

TruthNext ==
    \/ Call
    \/ Halt
    \/ StepVerify
    \/ StepEqual

TruthSpec == TruthInit /\ [][TruthNext]_vars

(***************************************************************************)
(* execute called on scripts of OP_CAT only.                                *)
(***************************************************************************)
\* Chains at the limits: main()'s cat_chain_4_elements; 520 and 521 bytes
\* in all; 1000 and 1002 empty elements.
CatLimitInputs ==
    { <<Rep(OP_CAT, 3), << <<97>>, <<98>>, <<99>>, <<100>> >> >>,
      <<Rep(OP_CAT, 2), <<max_a, Rep(66, 259), <<67>>>> >>,
      <<Rep(OP_CAT, 2), <<max_a, max_b, <<67>>>> >>,
      <<Rep(OP_CAT, MAX_SCRIPT_ELEMENT_SIZE - 1),
        Rep(<<97>>, MAX_SCRIPT_ELEMENT_SIZE)>>,
      <<Rep(OP_CAT, MAX_SCRIPT_ELEMENT_SIZE),
        Rep(<<97>>, MAX_SCRIPT_ELEMENT_SIZE + 1)>>,
      <<Rep(OP_CAT, MAX_STACK_SIZE - 1), Rep(<<>>, MAX_STACK_SIZE)>>,
      <<Rep(OP_CAT, MAX_STACK_SIZE + 1), Rep(<<>>, MAX_STACK_SIZE + 2)>> }

\* Scripts of up to MaxCatDepth OP_CATs on stacks of up to MaxCatDepth + 1
\* operands: the empty string, strings that are repetitions of one another
\* and strings that are not.
CatInputs ==
    LET elems == {<<>>, <<97>>, <<98>>, <<97, 97>>, <<97, 98>>}
        stacks == UNION {[1..n -> elems] : n \in 0..(MaxCatDepth + 1)}
    IN  ({Rep(OP_CAT, k) : k \in 0..MaxCatDepth} \X stacks)
            \cup CatLimitInputs

CatInit ==
    /\ \E input \in CatInputs :
          /\ script = input[1]
          /\ initial_stack = input[2]
    /\ stack = <<>>
    /\ error = None
    /\ pc = 0
    /\ phase = "idle"
    /\ result = FALSE
    /\ last_op = -1
    /\ prev_stack = <<>>
    /\ prev_pc = 0
    /\ steps = 0
    /\ calls = 0
    /\ CodecUnused
    /\ ConcUnused
    /\ SigUnused
    /\ HelpersUnused

CatNext ==
    \/ Call
    \/ Halt
    \/ StepCat

CatSpec == CatInit /\ [][CatNext]_vars

(***************************************************************************)
(* execute called on a script given in two parts, s1 + s2.                  *)
(***************************************************************************)
\* The first parts: every script of at most MaxComposeLen bytes, and scripts
\* that end in a complete push, in the middle of a push, or in a failure.
FirstParts ==
    ScriptsUpTo(MaxComposeLen)
        \cup {<<1, 1>>, <<1, 0>>, <<2, 1>>, <<OP_0, 1, 5>>, <<OP_0, 1>>,
              <<OP_DUP, OP_CAT>>, <<1, 1, OP_ADD>>, <<OP_EQUAL, OP_VERIFY>>}

\* The second parts.
SecondParts ==
    {<<>>} \cup {<<b>> : b \in ScriptBytes}
        \cup {<<1, 1>>, <<5, OP_DUP>>, <<OP_DUP, OP_CAT>>, <<OP_CAT, OP_VERIFY>>}

\* The caller holds the two parts and calls execute with their
\* concatenation.
ComposeInit ==
    /\ \E s1 \in FirstParts, s2 \in SecondParts :
          /\ script = s1 \o s2
          /\ split = Len(s1)
    /\ initial_stack \in {<<>>, << <<1>> >>, << <<>> >>, << <<1>>, <<>> >>,
                          << <<1>>, <<128>> >>}
    /\ stack = <<>>
    /\ error = None
    /\ pc = 0
    /\ phase = "idle"
    /\ result = FALSE
    /\ last_op = -1
    /\ prev_stack = <<>>
    /\ prev_pc = 0
    /\ steps = 0
    /\ calls = 0
    /\ gen_args = <<>>
    /\ vector = <<>>
    /\ gen_phase = "unused"
    /\ varint_n = BigZero
    /\ varint_out = <<>>
    /\ varint_error = None
    /\ varint_phase = "unused"
    /\ esc_script_pubkey = <<>>
    /\ esc_witness = <<>>
    /\ esc_result = <<>>
    /\ esc_phase = "unused"
    /\ CodecUnused
    /\ ConcUnused
    /\ SigUnused

ComposeNext ==
    \/ Call
    \/ Halt
    \/ StepDirectPush
    \/ StepPush
    \/ StepVerify
    \/ StepDrop
    \/ StepDup
    \/ StepCat
    \/ StepEqual
    \/ StepAdd
    \/ StepUnknown

ComposeSpec == ComposeInit /\ [][ComposeNext]_vars

(***************************************************************************)
(* Vocabulary of the properties                                             *)
(***************************************************************************)
\* The six kinds of failure and the messages execute reports for each.
UnderflowErrors ==
    {"OP_VERIFY: stack underflow", "OP_DROP: stack underflow",
     "OP_DUP: stack underflow", "OP_CAT: stack underflow",
     "OP_EQUAL: stack underflow", "OP_ADD: stack underflow"}
OverflowErrors == {"Stack overflow"}
TooLargeErrors ==
    {"OP_PUSH: element too large", "OP_CAT: result too large",
     "OP_ADD: result too large"}
TruncatedErrors ==
    {"PUSH: not enough data", "OP_PUSH: missing length",
     "OP_PUSH: not enough data"}
UnknownErrors == {"Unknown opcode: 0x" \o Hex2(b) : b \in 0..255}
VerifyErrors == {"OP_VERIFY: failed"}

ErrorKinds ==
    <<UnderflowErrors, OverflowErrors, TooLargeErrors, TruncatedErrors,
      UnknownErrors, VerifyErrors>>

\* The last loop iteration ran opcode op.
Ran(op) == last_op = op
\* The last loop iteration ran op and reached its continue.
Succeeded(op) == last_op = op /\ error = None

\* The operands of a two-operand opcode: b on top, a below it.
PrevB == prev_stack[Len(prev_stack)]
PrevA == prev_stack[Len(prev_stack) - 1]

ByteIdentical(a, b) ==
    /\ Len(a) = Len(b)
    /\ \A i \in 1..Len(a) : a[i] = b[i]

\* Falsy as the specification words it: empty, or all bytes zero except that
\* the last byte may be 0x80.
Falsy(data) ==
    \/ Len(data) = 0
    \/ /\ \A i \in 1..(Len(data) - 1) : data[i] = 0
       /\ data[Len(data)] \in {0, 128}

\* Stack elements the opcode needs.
Needs(op) ==
    IF op \in {OP_VERIFY, OP_DROP, OP_DUP} THEN 1
    ELSE IF op \in {OP_CAT, OP_EQUAL, OP_ADD} THEN 2
    ELSE 0

UnderflowOf(op) ==
    IF op = OP_VERIFY THEN "OP_VERIFY: stack underflow"
    ELSE IF op = OP_DROP THEN "OP_DROP: stack underflow"
    ELSE IF op = OP_DUP THEN "OP_DUP: stack underflow"
    ELSE IF op = OP_CAT THEN "OP_CAT: stack underflow"
    ELSE IF op = OP_EQUAL THEN "OP_EQUAL: stack underflow"
    ELSE "OP_ADD: stack underflow"

(***************************************************************************)
(* Properties                                                               *)
(***************************************************************************)

\* C1: for an initial stack of at most 1000 entries the stack never holds
\* more than 1000 entries, at any point of the execution or at its end.
C1_DepthWithinLimit ==
    Len(initial_stack) <= MAX_STACK_SIZE => Len(stack) <= MAX_STACK_SIZE

\* C2: when every element of the initial stack is at most 520 bytes, every
\* element on the stack is at most 520 bytes at every point of the execution.
C2_ElementsWithinLimit ==
    (\A i \in 1..Len(initial_stack) :
        Len(initial_stack[i]) <= MAX_SCRIPT_ELEMENT_SIZE)
    => \A i \in 1..Len(stack) : Len(stack[i]) <= MAX_SCRIPT_ELEMENT_SIZE

\* OP_CAT has left an element of exactly 520 bytes on the stack.
C2_Witness ==
    /\ Succeeded(OP_CAT)
    /\ Len(PrevA) = 260 /\ Len(PrevB) = 260
    /\ Len(Last(stack)) = MAX_SCRIPT_ELEMENT_SIZE

\* C3: a successful OP_CAT on [..., a, b] leaves [..., a || b]: a's bytes
\* then b's, one element fewer, everything below a unchanged; ["hello",
\* "world"] with script [CAT] ends with ["helloworld"].
C3_CatConcatenates ==
    /\ Succeeded(OP_CAT) =>
          /\ Len(prev_stack) >= 2
          /\ Len(stack) = Len(prev_stack) - 1
          /\ \A i \in 1..(Len(stack) - 1) : stack[i] = prev_stack[i]
          /\ Len(Last(stack)) = Len(PrevA) + Len(PrevB)
          /\ \A i \in 1..Len(PrevA) : Last(stack)[i] = PrevA[i]
          /\ \A i \in 1..Len(PrevB) : Last(stack)[Len(PrevA) + i] = PrevB[i]
    /\ (phase = "returned" /\ script = <<OP_CAT>>
            /\ initial_stack = <<hello, world>>) =>
          /\ result
          /\ stack = <<<<104, 101, 108, 108, 111, 119, 111, 114, 108, 100>>>>

\* OP_CAT has succeeded on two different operands above a third element.
C3_Witness ==
    /\ Succeeded(OP_CAT)
    /\ Len(prev_stack) >= 3
    /\ PrevA # PrevB /\ PrevA # <<>> /\ PrevB # <<>>

\* C4: with at least two elements on the stack, OP_CAT succeeds exactly when
\* len(a) + len(b) <= 520 and fails with element-too-large exactly when
\* len(a) + len(b) > 520.
C4_CatSucceedsIffFits ==
    (Ran(OP_CAT) /\ Len(prev_stack) >= 2) =>
        /\ (error = None) <=>
              (Len(PrevA) + Len(PrevB) <= MAX_SCRIPT_ELEMENT_SIZE)
        /\ (error = "OP_CAT: result too large") <=>
              (Len(PrevA) + Len(PrevB) > MAX_SCRIPT_ELEMENT_SIZE)

\* Some branch of execute applies: the call is pending, or the loop
\* condition fails and execute returns, or the byte at pc is one that a
\* branch or the final raise takes.
StepPossible ==
    \/ phase = "idle"
    \/ phase = "running" /\ ~Fetching
    \/ Fetching /\ (Opcode \in Dispatched \/ Opcode \in (0..255) \ Dispatched)

\* The bytes the last push opcode pushed.
PushedLen == Len(Last(stack))

\* The parts of C5 that do not depend on how far a step advances the pc:
\* at most len(script) steps; a step is always possible until the return; a
\* continuing step moves the pc forward and not past len(script); an error
\* ends the run with failure; a run without error ends at pc = len(script)
\* with success.
C5_Common ==
    /\ steps <= Len(script)
    /\ phase # "returned" => StepPossible
    /\ phase = "running" => error = None /\ pc <= Len(script)
    /\ (last_op # -1 /\ error = None) => prev_pc < pc /\ pc <= Len(script)
    /\ error # None => phase = "returned" /\ result = FALSE
    /\ (phase = "returned" /\ error = None) =>
          result = TRUE /\ pc = Len(script)

\* C5 as stated: execute is total, and each continuing step advances the pc
\* by 1, or by 1 plus the pushed data.
C5_AdvanceOneOrOnePlusData ==
    /\ C5_Common
    /\ (last_op # -1 /\ error = None) =>
          \/ pc - prev_pc = 1
          \/ last_op \in 0..75 /\ pc - prev_pc = 1 + PushedLen

\* C5, amended: execute is total, and each continuing step advances the pc
\* by 1, by 1 plus the pushed data for a direct push, and by 2 plus the
\* pushed data (opcode, length byte, data) for the length-prefixed push.
C5_ExecuteTotal ==
    /\ C5_Common
    /\ (last_op # -1 /\ error = None) =>
          pc - prev_pc = (IF last_op \in 1..75 THEN 1 + PushedLen
                          ELSE IF last_op = OP_0 THEN 2 + PushedLen
                          ELSE 1)

\* A run has ended with success right after a length-prefixed push of one
\* byte, which moved the pc by three.
C5_Witness ==
    /\ phase = "returned" /\ result
    /\ last_op = OP_0 /\ PushedLen = 1
    /\ pc - prev_pc = 3 /\ pc = Len(script)

\* C6: every failure is reported: execute returns False exactly when
\* vm.error is set, the error is then of exactly one of the six kinds, it
\* returns True with vm.error unset otherwise, and no state short of the
\* return is without a next step.
C6_FailuresReported ==
    /\ phase = "returned" => (result = FALSE <=> error # None)
    /\ (phase = "returned" /\ result) => error = None
    /\ error # None =>
          Cardinality({k \in 1..Len(ErrorKinds) : error \in ErrorKinds[k]}) = 1
    /\ phase # "returned" => StepPossible

\* A run has returned False with a verify-failed error.
C6_Witness ==
    /\ phase = "returned" /\ result = FALSE
    /\ error \in VerifyErrors

\* C7: an opcode that finds fewer elements than it needs (VERIFY, DROP, DUP:
\* one; CAT, EQUAL, ADD: two) fails with its stack-underflow error, whatever
\* else is wrong, and leaves the stack as it was before the opcode.
C7_UnderflowFirst ==
    (last_op # -1 /\ Len(prev_stack) < Needs(last_op)) =>
        /\ error = UnderflowOf(last_op)
        /\ phase = "returned" /\ result = FALSE
        /\ stack = prev_stack

\* OP_CAT has failed on a stack of one element, which is still there.
C7_Witness ==
    /\ Ran(OP_CAT)
    /\ Len(prev_stack) = 1
    /\ error = "OP_CAT: stack underflow"
    /\ stack = prev_stack /\ Len(stack) = 1

\* C8: OP_VERIFY on a non-empty stack pops the top element; a falsy element
\* fails the run with verify-failed, a truthy one lets it continue with the
\* rest of the stack; ["", ""] with [CAT, VERIFY] fails with verify-failed,
\* [0x01, 0x02] with [CAT, VERIFY] succeeds with an empty stack.
C8_Verify ==
    /\ (Ran(OP_VERIFY) /\ Len(prev_stack) >= 1) =>
          /\ stack = Pop(prev_stack)
          /\ ~is_truthy(Last(prev_stack)) =>
                /\ error = "OP_VERIFY: failed"
                /\ phase = "returned" /\ result = FALSE
          /\ is_truthy(Last(prev_stack)) => error = None
    /\ (phase = "returned" /\ script = <<OP_CAT, OP_VERIFY>>) =>
          /\ initial_stack = << <<>>, <<>> >> =>
                result = FALSE /\ error = "OP_VERIFY: failed"
          /\ initial_stack = << <<1>>, <<2>> >> =>
                result = TRUE /\ stack = <<>>

\* [0x01, 0x02] with [CAT, VERIFY] has succeeded.
C8_Witness ==
    /\ phase = "returned" /\ result
    /\ script = <<OP_CAT, OP_VERIFY>>
    /\ initial_stack = << <<1>>, <<2>> >>
    /\ Ran(OP_VERIFY) /\ prev_stack = << <<1, 2>> >>

\* C9: is_truthy(data) is False exactly when data is empty, or all bytes but
\* the last are 0x00 and the last is 0x00 or 0x80: for the element on top of
\* the stack, for the element OP_VERIFY tests, and for the byte strings the
\* specification lists.
C9_Truthiness ==
    /\ stack # <<>> => (is_truthy(Last(stack)) <=> ~Falsy(Last(stack)))
    /\ (Ran(OP_VERIFY) /\ Len(prev_stack) >= 1) =>
          ((error = "OP_VERIFY: failed") <=> Falsy(Last(prev_stack)))
    /\ ~is_truthy(<<>>) /\ ~is_truthy(<<0>>) /\ ~is_truthy(<<128>>)
    /\ ~is_truthy(<<0, 128>>)
    /\ is_truthy(<<1>>) /\ is_truthy(<<1, 128>>) /\ is_truthy(<<128, 0>>)

\* OP_VERIFY has failed on 0x0080, zero with the sign bit.
C9_Witness ==
    /\ Ran(OP_VERIFY)
    /\ Len(prev_stack) >= 1
    /\ Last(prev_stack) = <<0, 128>>
    /\ error = "OP_VERIFY: failed"

\* C10: OP_EQUAL on [..., a, b] replaces a and b by 0x01 when a and b are
\* byte-for-byte identical and by the empty byte string otherwise, leaving
\* the elements below a unchanged; strings of different lengths are never
\* equal.
C10_Equal ==
    /\ (Ran(OP_EQUAL) /\ Len(prev_stack) >= 2) =>
          /\ error = None
          /\ Len(stack) = Len(prev_stack) - 1
          /\ \A i \in 1..(Len(stack) - 1) : stack[i] = prev_stack[i]
          /\ ByteIdentical(PrevA, PrevB) => Last(stack) = <<1>>
          /\ ~ByteIdentical(PrevA, PrevB) => Last(stack) = <<>>
          /\ Len(PrevA) # Len(PrevB) => Last(stack) = <<>>
    /\ (phase = "returned" /\ script = <<OP_CAT, OP_EQUAL>>
            /\ initial_stack = <<Hello \o World, Hello, World>>) =>
          result /\ stack = << <<1>> >>

\* OP_EQUAL has compared 0x01 with 0x0100, which decode to the same number,
\* and pushed the empty byte string.
C10_Witness ==
    /\ Ran(OP_EQUAL)
    /\ Len(prev_stack) >= 2
    /\ PrevA = <<1>> /\ PrevB = <<1, 0>>
    /\ stack = << <<>> >>

\* The number a byte string of at most four bytes stands for as a script
\* number: little-endian magnitude, sign in the top bit of the last byte.
NumValue(x) ==
    LET byte(i) == IF i > Len(x) THEN 0
                   ELSE IF i = Len(x) THEN x[i] % 128 ELSE x[i]
        mag == byte(1) + 256 * byte(2) + 65536 * byte(3) + 16777216 * byte(4)
    IN  IF x # <<>> /\ Last(x) >= 128 THEN 0 - mag ELSE mag

\* x is the minimal encoding of its number: no byte could be dropped.
Minimal(x) ==
    \/ x = <<>>
    \/ Last(x) % 128 # 0
    \/ Len(x) >= 2 /\ x[Len(x) - 1] >= 128

\* The elements of prev_stack below the two operands are the elements of
\* stack below its top.
BelowUnchanged ==
    /\ Len(stack) = Len(prev_stack) - 1
    /\ \A i \in 1..(Len(stack) - 1) : stack[i] = prev_stack[i]

\* The encoded sum of the two operands of the last step.
PrevSum ==
    encode_script_num(BigAdd(decode_script_num(PrevA),
                             decode_script_num(PrevB)))

\* What OP_ADD leaves on top when it succeeds.
AddResultCorrect ==
    /\ BelowUnchanged
    /\ Last(stack) = PrevSum
    /\ Minimal(Last(stack))
    /\ (Len(PrevA) <= 3 /\ Len(PrevB) <= 3) =>
          NumValue(Last(stack)) = NumValue(PrevA) + NumValue(PrevB)

\* C11 as stated: OP_ADD on [..., a, b] replaces a and b by
\* encode(decode(a) + decode(b)), in exact integer arithmetic, for operands of
\* any length and any encoding, leaving the elements below a unchanged.
C11_AddAlwaysReplaces ==
    (Ran(OP_ADD) /\ Len(prev_stack) >= 2) =>
        error = None /\ AddResultCorrect

\* C11, amended: OP_ADD on [..., a, b] replaces a and b by the minimal
\* encoding of decode(a) + decode(b), leaving the elements below a
\* unchanged, unless that encoding is longer than 520 bytes: then it fails as
\* too large with a and b popped.  0x01 and 0x02 give 0x03, 5 and -5 give
\* the empty string, 127 and 1 give 0x80 0x00.
C11_Add ==
    /\ Succeeded(OP_ADD) => AddResultCorrect
    /\ (Ran(OP_ADD) /\ Len(prev_stack) >= 2) =>
          /\ error = None <=> Len(PrevSum) <= MAX_SCRIPT_ELEMENT_SIZE
          /\ error # None =>
                /\ error = "OP_ADD: result too large"
                /\ stack = Pop(Pop(prev_stack))
    /\ (phase = "returned" /\ script = <<OP_ADD>>) =>
          /\ initial_stack = << <<1>>, <<2>> >> => stack = << <<3>> >>
          /\ initial_stack = << <<5>>, <<133>> >> => stack = << <<>> >>
          /\ initial_stack = << <<127>>, <<1>> >> => stack = << <<128, 0>> >>

\* OP_ADD has added 127 and 1 below another element's worth of stack and
\* left the two-byte 0x80 0x00.
C11_Witness ==
    /\ Succeeded(OP_ADD)
    /\ Len(prev_stack) >= 2
    /\ PrevA = <<127>> /\ PrevB = <<1>>
    /\ stack = << <<128, 0>> >>

\* The bytes of the script that follow the opcode of the last step.
BytesAfterOpcode == Len(script) - (prev_pc + 1)

\* C13: an opcode byte N in 1..75 pushes the next N script bytes as one
\* element and execution resumes right after them, so none of them runs as
\* an opcode; with fewer than N bytes left the run fails with the truncated
\* push error and the stack unchanged.
C13_DirectPush ==
    (1 <= last_op /\ last_op <= 75) =>
        LET n == last_op
        IN  IF BytesAfterOpcode >= n
            THEN /\ error = None
                 /\ stack = Append(prev_stack,
                                   [i \in 1..n |-> script[prev_pc + 1 + i]])
                 /\ pc = prev_pc + 1 + n
            ELSE /\ error = "PUSH: not enough data"
                 /\ phase = "returned" /\ ~result
                 /\ stack = prev_stack

\* The 75-byte direct push, its data made of OP_DUP bytes, has pushed one
\* 75-byte element and the run has ended after exactly one step.
C13_Witness ==
    /\ phase = "returned" /\ result
    /\ last_op = 75
    /\ steps = 1
    /\ stack = Append(initial_stack, Rep(OP_DUP, 75))

\* C14: OP_0 reads a length byte L and pushes the next L bytes.  It fails
\* with a truncated-push error when the length byte is missing or fewer than
\* L bytes remain, else as too large when L exceeds 520, else with stack
\* overflow when the stack holds 1000 entries or more; the stack is unchanged
\* on each failure.  The script 00 02 41 42 00 02 43 44 7e on the empty stack
\* ends with the one element ABCD.
C14_LengthPrefixedPush ==
    /\ Ran(OP_0) =>
          IF BytesAfterOpcode < 1
          THEN error = "OP_PUSH: missing length" /\ stack = prev_stack
          ELSE LET L == script[prev_pc + 2]
               IN  IF BytesAfterOpcode - 1 < L
                   THEN /\ error = "OP_PUSH: not enough data"
                        /\ stack = prev_stack
                   ELSE IF L > 520
                   THEN /\ error = "OP_PUSH: element too large"
                        /\ stack = prev_stack
                   ELSE IF Len(prev_stack) >= 1000
                   THEN error = "Stack overflow" /\ stack = prev_stack
                   ELSE /\ error = None
                        /\ stack = Append(prev_stack,
                                     [i \in 1..L |-> script[prev_pc + 2 + i]])
                        /\ pc = prev_pc + 2 + L
    /\ (Ran(OP_0) /\ error # None) => phase = "returned" /\ ~result
    /\ (phase = "returned" /\ initial_stack = <<>>
            /\ script = <<0, 2, 65, 66, 0, 2, 67, 68, 126>>) =>
          result /\ stack = << <<65, 66, 67, 68>> >>

\* A well-formed length-prefixed push has been refused on a stack of 1000
\* entries, which is left as it was.
C14_Witness ==
    /\ Ran(OP_0)
    /\ error = "Stack overflow"
    /\ Len(prev_stack) = 1000
    /\ stack = prev_stack
    /\ BytesAfterOpcode >= 1

\* C15: OP_DUP on a stack of depth d with 1 <= d < 1000 leaves depth d + 1
\* with the top two elements byte-identical and everything below unchanged;
\* at depth 1000 it fails with stack overflow and on the empty stack with
\* stack underflow, the stack unchanged in both; the stack [x] with the
\* script 76 7e ends as [x || x] when x has at most 260 bytes.
C15_Dup ==
    /\ Ran(OP_DUP) =>
          /\ (1 <= Len(prev_stack) /\ Len(prev_stack) < 1000) =>
                /\ error = None
                /\ Len(stack) = Len(prev_stack) + 1
                /\ stack[Len(stack)] = stack[Len(stack) - 1]
                /\ \A i \in 1..Len(prev_stack) : stack[i] = prev_stack[i]
          /\ Len(prev_stack) = 1000 =>
                /\ error = "Stack overflow"
                /\ stack = prev_stack
          /\ Len(prev_stack) = 0 =>
                /\ error = "OP_DUP: stack underflow"
                /\ stack = prev_stack
          /\ error # None => phase = "returned" /\ ~result
    /\ (phase = "returned" /\ script = <<118, 126>>
            /\ Len(initial_stack) = 1 /\ Len(initial_stack[1]) <= 260) =>
          /\ result
          /\ stack = <<initial_stack[1] \o initial_stack[1]>>

\* DUP then CAT has doubled a 260-byte element into one of 520 bytes.
C15_Witness ==
    /\ phase = "returned" /\ result
    /\ script = <<118, 126>>
    /\ last_op = OP_CAT
    /\ Len(initial_stack) = 1 /\ Len(initial_stack[1]) = 260
    /\ Len(stack) = 1 /\ Len(stack[1]) = 520

\* The opcode bytes C16 exempts: the length-prefixed push, the direct
\* pushes, VERIFY, DROP, DUP, CAT, EQUAL and ADD.
Implemented == {0} \cup (1..75) \cup {105, 117, 118, 126, 135, 147}

\* The opcodes C16 names as rejected, with the message each is rejected with:
\* OP_PUSHDATA1/2/4, OP_1NEGATE, OP_1, OP_16, OP_NOP, OP_RETURN and 0x88.
NamedUnknown ==
    { <<76, "Unknown opcode: 0x4c">>, <<77, "Unknown opcode: 0x4d">>,
      <<78, "Unknown opcode: 0x4e">>, <<79, "Unknown opcode: 0x4f">>,
      <<81, "Unknown opcode: 0x51">>, <<96, "Unknown opcode: 0x60">>,
      <<97, "Unknown opcode: 0x61">>, <<106, "Unknown opcode: 0x6a">>,
      <<136, "Unknown opcode: 0x88">> }

IntOf(v) ==
    LET m == Digit(v.mag, 1) + 256 * Digit(v.mag, 2) + 65536 * Digit(v.mag, 3)
                + 16777216 * Digit(v.mag, 4)
    IN  IF v.neg THEN 0 - m ELSE m

\* No enumerated string of at most four bytes that stands for the same
\* number as x is shorter than x.
Shortest(x) ==
    \A y \in CodecStrings :
        (Len(y) <= 4 /\ NumValue(y) = NumValue(x)) => Len(y) >= Len(x)

\* C12: decode_script_num(encode_script_num(n)) = n for every integer n;
\* encode_script_num(0) is the empty string and decodes to 0; for every byte
\* string x, encode_script_num(decode_script_num(x)) is the shortest encoding
\* of the number x stands for, equal to x exactly when x is already
\* canonical; negative zero and zero-padded strings map to the canonical
\* form.
C12_CodecRoundTrip ==
    /\ codec_phase \in {"encoded", "value_round_trip"} =>
          /\ Minimal(codec_data)
          /\ codec_arg = BigZero => codec_data = <<>>
          /\ Len(codec_arg.mag) <= 3 =>
                /\ NumValue(codec_data) = IntOf(codec_arg)
                /\ Shortest(codec_data)
    /\ codec_phase = "value_round_trip" => codec_value = codec_arg
    /\ codec_phase \in {"decoded", "data_round_trip"} =>
          /\ codec_arg = <<>> => codec_value = BigZero
          /\ Len(codec_arg) <= 4 => IntOf(codec_value) = NumValue(codec_arg)
    /\ codec_phase = "data_round_trip" =>
          /\ Minimal(codec_data)
          /\ Len(codec_data) <= Len(codec_arg)
          /\ decode_script_num(codec_data) = codec_value
          /\ Len(codec_arg) <= 4 =>
                /\ NumValue(codec_data) = NumValue(codec_arg)
                /\ Shortest(codec_data)
          /\ codec_data = codec_arg <=> Minimal(codec_arg)
          /\ codec_arg \in {<<128>>, <<0, 128>>, <<0>>, <<0, 0>>} =>
                codec_data = <<>>
          /\ codec_arg \in {<<1, 0>>, <<1, 0, 0>>} => codec_data = <<1>>
          /\ codec_arg = <<1, 128>> => codec_data = <<129>>
          /\ codec_arg = <<255, 0>> => codec_data = codec_arg

\* The two-byte negative zero 0x00 0x80 has been decoded and encoded again
\* to the empty string.
C12_Witness ==
    /\ codec_phase = "data_round_trip"
    /\ codec_arg = <<0, 128>>
    /\ codec_value = BigZero
    /\ codec_data = <<>>

\* C17: the outcome of execute (the returned flag, vm.stack and vm.error)
\* depends on script and initial_stack only: after any sequence of earlier
\* calls on the same instance, successful or failed, it is the outcome a
\* fresh instance gives; and no step of the execution changes the caller's
\* initial_stack.
C17_NoCrossCallLeakage ==
    /\ [](phase = "returned" =>
             [result |-> result, stack |-> stack, error |-> error]
                 = FreshOutcome(script, initial_stack))
    /\ [][(phase \in {"idle", "running"})
             => (initial_stack' = initial_stack)]_vars

\* The second call on an instance, with an empty initial stack, has
\* returned with the underflow a fresh instance reports.
C17_Witness ==
    /\ phase = "returned"
    /\ calls = 2
    /\ initial_stack = <<>>
    /\ script = <<OP_DUP>>
    /\ error = "OP_DUP: stack underflow"
    /\ stack = <<>>

\* What caller c has observed once it has read the instance's fields.
Observed(c) ==
    [result |-> callers[c].success, stack |-> callers[c].seen_stack,
     error |-> callers[c].seen_error]

\* C18: when two callers run execute in parallel, under every interleaving
\* of their steps each observes the success flag, final stack and error its
\* call gives when run alone.
C18_SameAsAlone ==
    \A c \in 1..2 :
        callers[c].phase = "done" =>
            Observed(c) = FreshOutcome(callers[c].script,
                                       callers[c].initial_stack)

\* The field f is the w-byte little-endian form of the integer v: its bytes
\* are known, they are the base-256 digits of v from the least significant,
\* and for v < 2^24 they add up to v.
IsLittleEndian(f, w, v) ==
    /\ Len(f) = w
    /\ \A i \in 1..w : Len(f[i]) = 1
    /\ ~v.neg
    /\ StripZeros([i \in 1..w |-> f[i][1]]) = v.mag
    /\ Len(v.mag) <= 3 =>
          /\ f[1][1] + 256 * f[2][1] + 65536 * f[3][1] = IntOf(v)
          /\ \A i \in 4..w : f[i][1] = 0

\* The field f is the byte string s of known bytes.
IsBytes(f, s) ==
    /\ Len(f) = Len(s)
    /\ \A i \in 1..Len(s) : f[i] = <<s[i]>>

\* The compact length prefix of a byte string of n < 65536 bytes.
CompactSize(n) ==
    IF n < 253 THEN <<n>> ELSE <<253, n % 256, n \div 256>>

\* The item is the digest of a digest: SHA-256 applied twice.
IsDoubleSha256(item) ==
    /\ Len(item) = 2
    /\ item[1] = "sha256"
    /\ Len(item[2]) = 1
    /\ Len(item[2][1]) = 2
    /\ item[2][1][1] = "sha256"

\* The message under the two applications of SHA-256.
HashedMessage(item) == item[2][1][2]

\* m is, for the inputs in order, the byte-reversed txid and the 4-byte vout.
IsPrevouts(m) ==
    /\ Len(m) = 36 * Len(tx.inputs)
    /\ \A k \in 1..Len(tx.inputs) :
          /\ \A j \in 1..32 :
                m[36 * (k - 1) + j] = <<tx.inputs[k].txid[33 - j]>>
          /\ IsLittleEndian(SubSeq(m, 36 * k - 3, 36 * k), 4,
                            tx.inputs[k].vout)

\* m is, for the inputs in order, the 4-byte sequence.
IsSequences(m) ==
    /\ Len(m) = 4 * Len(tx.inputs)
    /\ \A k \in 1..Len(tx.inputs) :
          IsLittleEndian(SubSeq(m, 4 * k - 3, 4 * k), 4,
                         tx.inputs[k].sequence)

\* The bytes one output contributes: 8-byte value, length prefix, script.
OutputLen(out) ==
    8 + Len(CompactSize(Len(out.script_pubkey))) + Len(out.script_pubkey)

RECURSIVE OutputsLen(_)
OutputsLen(n) ==
    IF n = 0 THEN 0 ELSE OutputsLen(n - 1) + OutputLen(tx.outputs[n])

\* m is, for the outputs in order, the 8-byte value and the var_int-prefixed
\* script_pubkey.
IsOutputs(m) ==
    /\ Len(m) = OutputsLen(Len(tx.outputs))
    /\ \A k \in 1..Len(tx.outputs) :
          LET at == OutputsLen(k - 1)
              spk == tx.outputs[k].script_pubkey
              pre == CompactSize(Len(spk))
          IN  /\ IsLittleEndian(SubSeq(m, at + 1, at + 8), 8,
                                tx.outputs[k].value)
              /\ IsBytes(SubSeq(m, at + 9, at + 8 + Len(pre)), pre)
              /\ IsBytes(SubSeq(m, at + 9 + Len(pre),
                                at + 8 + Len(pre) + Len(spk)), spk)

\* The preimage p has the ten fields of C19 in their order, for the input at
\* position sel of tx.inputs.
IsPreimage(p, sel) ==
    LET sc == sig_args.script_code
        pre == CompactSize(Len(sc))
        n == Len(pre) + Len(sc)
    IN  /\ Len(p) = 63 + n
        /\ IsLittleEndian(SubSeq(p, 1, 4), 4, tx.version)
        /\ IsDoubleSha256(p[5]) /\ IsPrevouts(HashedMessage(p[5]))
        /\ IsDoubleSha256(p[6]) /\ IsSequences(HashedMessage(p[6]))
        /\ \A j \in 1..32 : p[6 + j] = <<tx.inputs[sel].txid[33 - j]>>
        /\ IsLittleEndian(SubSeq(p, 39, 42), 4, tx.inputs[sel].vout)
        /\ IsBytes(SubSeq(p, 43, 42 + Len(pre)), pre)
        /\ IsBytes(SubSeq(p, 43 + Len(pre), 42 + n), sc)
        /\ IsLittleEndian(SubSeq(p, 43 + n, 50 + n), 8, sig_args.value)
        /\ IsLittleEndian(SubSeq(p, 51 + n, 54 + n), 4,
                          tx.inputs[sel].sequence)
        /\ IsDoubleSha256(p[55 + n])
        /\ IsOutputs(HashedMessage(p[55 + n]))
        /\ IsLittleEndian(SubSeq(p, 56 + n, 59 + n), 4, tx.locktime)
        /\ IsLittleEndian(SubSeq(p, 60 + n, 63 + n), 4,
                          sig_args.sighash_type)
        /\ ByteLen(p) = 156 + n

\* C19: for an input index in 0..len(inputs)-1, serialize_for_sighash
\* returns the concatenation of the 4-byte version, the double SHA-256 of all
\* inputs' reversed txid and 4-byte vout, the double SHA-256 of all inputs'
\* 4-byte sequences, the selected input's reversed txid and 4-byte vout,
\* var_int(len(script_code)) and script_code, the 8-byte value, the selected
\* input's 4-byte sequence, the double SHA-256 of all outputs' 8-byte value
\* and var_int-prefixed script_pubkey, the 4-byte locktime and the 4-byte
\* sighash type, all little-endian; its length is 156 plus the length of the
\* var_int plus the length of script_code; and compute_sighash is SHA-256
\* applied twice to that preimage, 32 bytes.
C19_Preimage ==
    /\ (sig_phase \in {"serialized", "hashed"} /\ sig_args.input_index >= 0)
          => IsPreimage(preimage, sig_args.input_index + 1)
    /\ sig_phase = "hashed" =>
          /\ Len(digest) = 1
          /\ IsDoubleSha256(digest[1])
          /\ HashedMessage(digest[1]) = preimage
          /\ ByteLen(digest) = 32

\* The sighash of the second input of a two-input transaction has been
\* computed over a script code of 253 bytes: a preimage of 412 bytes.
C19_Witness ==
    /\ sig_phase = "hashed"
    /\ Len(tx.inputs) = 2
    /\ Len(tx.outputs) = 1
    /\ tx.inputs[1] # tx.inputs[2]
    /\ sig_args.input_index = 1
    /\ Len(sig_args.script_code) = 253
    /\ ByteLen(preimage) = 412

\* The integer v fits an unsigned field of the given number of bytes.
FitsBytes(v, bytes) == ~v.neg /\ Len(v.mag) <= bytes

\* Every integer field of the transaction and of the arguments is within
\* its bit width: 32 bits, and 64 bits for the values.
FieldsInWidth ==
    /\ FitsBytes(tx.version, 4) /\ FitsBytes(tx.locktime, 4)
    /\ \A i \in 1..Len(tx.inputs) :
          FitsBytes(tx.inputs[i].vout, 4) /\ FitsBytes(tx.inputs[i].sequence, 4)
    /\ \A i \in 1..Len(tx.outputs) : FitsBytes(tx.outputs[i].value, 8)
    /\ FitsBytes(sig_args.value, 8) /\ FitsBytes(sig_args.sighash_type, 4)

\* C20: with every field within its bit width, serialize_for_sighash and
\* compute_sighash fail with an index-out-of-range error whenever
\* input_index is not in 0..len(tx.inputs)-1, negative values included, and
\* then return neither preimage nor digest; for an index in that range they
\* do not fail.
C20_IndexChecked ==
    (sig_phase # "called" /\ FieldsInWidth) =>
        IF sig_args.input_index \in 0..(Len(tx.inputs) - 1)
        THEN sig_phase \in {"serialized", "hashed"} /\ sig_error = None
        ELSE /\ sig_phase = "raised"
             /\ sig_error = "IndexError"
             /\ preimage = <<>>
             /\ digest = <<>>

(***************************************************************************)
(* Transaction._var_int                                                     *)
(***************************************************************************)
\* n <= bound, both non-negative.
AtMost(n, bound) == ~MagLess(bound.mag, n.mag)

\* The bytes f are the w-byte little-endian form of the non-negative v.
IsLittleEndianBytes(f, w, v) ==
    /\ Len(f) = w
    /\ StripZeros(f) = v.mag
    /\ Len(v.mag) <= 3 =>
          /\ f[1] + (IF w >= 2 THEN 256 * f[2] ELSE 0)
                + (IF w >= 3 THEN 65536 * f[3] ELSE 0) = IntOf(v)
          /\ \A i \in 4..w : f[i] = 0

\* The total length of a compact integer, read off its first byte.
VarIntLength(first) ==
    IF first < 253 THEN 1
    ELSE IF first = 253 THEN 3
    ELSE IF first = 254 THEN 5
    ELSE 9

\* A parser of a compact integer followed by more bytes: the integer and the
\* bytes after it.
ParseVarInt(s) ==
    LET l == VarIntLength(s[1])
    IN  [n    |-> IF l = 1 THEN BigOf(s[1])
                  ELSE [neg |-> FALSE, mag |-> StripZeros(SubSeq(s, 2, l))],
         rest |-> SubSeq(s, l + 1, Len(s))]

\* Byte strings that may follow a compact integer.
VarIntTails == {<<>>, <<0>>, <<253, 1>>, <<255, 255, 255>>}

\* C24: _var_int(n) of a length 0 <= n < 2^64 is the byte n below 0xfd, 0xfd
\* and 2 little-endian bytes up to 0xffff, 0xfe and 4 little-endian bytes up
\* to 0xffffffff, and 0xff and 8 little-endian bytes above; no two lengths
\* have the same encoding, the first byte gives the total length 1, 3, 5 or
\* 9, and a parser reading the first byte recovers n and what follows it.
C24_VarInt ==
    varint_phase = "returned" =>
        LET n == varint_n
            out == varint_out
        IN  /\ IF MagLess(n.mag, BigOf(253).mag)
               THEN out = <<IntOf(n)>>
               ELSE IF AtMost(n, BigOf(65535))
               THEN out[1] = 253 /\ IsLittleEndianBytes(Tail(out), 2, n)
               ELSE IF AtMost(n, U32Max)
               THEN out[1] = 254 /\ IsLittleEndianBytes(Tail(out), 4, n)
               ELSE out[1] = 255 /\ IsLittleEndianBytes(Tail(out), 8, n)
            /\ \A m \in VarIntArgs :
                  (VarIntRaises(m) = None /\ m # n) => var_int(m) # out
            /\ Len(out) = VarIntLength(out[1])
            /\ Len(out) \in {1, 3, 5, 9}
            /\ \A t \in VarIntTails :
                  ParseVarInt(out \o t) = [n |-> n, rest |-> t]

\* _var_int has returned the 9-byte form of 2^64 - 1.
C24_Witness ==
    /\ varint_phase = "returned"
    /\ varint_n = U64Max
    /\ varint_out = <<255>> \o Rep(255, 8)

(***************************************************************************)
(* extract_script_code                                                      *)
(***************************************************************************)
\* A version 0 witness program of 20 bytes.
IsP2WPKH(spk) == Len(spk) = 22 /\ spk[1] = 0 /\ spk[2] = 20

\* A version 0 witness program of 32 bytes.
IsP2WSH(spk) == Len(spk) = 34 /\ spk[1] = 0 /\ spk[2] = 32

\* C22: extract_script_code returns, for a 22-byte script_pubkey starting
\* 0x00 0x14, the 25 bytes 0x76 0xa9 0x14, script_pubkey[2:22], 0x88 0xac
\* whatever the witness; for a 34-byte script_pubkey starting 0x00 0x20 and
\* a witness that is not empty, the last witness element; in every other
\* case script_pubkey itself.
C22_ExtractScriptCode ==
    esc_phase = "returned" =>
        LET spk == esc_script_pubkey
            res == esc_result
        IN  IF IsP2WPKH(spk)
            THEN /\ Len(res) = 25
                 /\ res[1] = 118 /\ res[2] = 169 /\ res[3] = 20
                 /\ \A i \in 1..20 : res[3 + i] = spk[2 + i]
                 /\ res[24] = 136 /\ res[25] = 172
            ELSE IF IsP2WSH(spk) /\ Len(esc_witness) > 0
            THEN res = esc_witness[Len(esc_witness)]
            ELSE res = spk

\* extract_script_code has returned the last of two different witness
\* elements for a P2WSH script_pubkey.
C22_Witness ==
    /\ esc_phase = "returned"
    /\ IsP2WSH(esc_script_pubkey)
    /\ Len(esc_witness) = 2
    /\ esc_witness[1] # esc_witness[2]
    /\ esc_result = esc_witness[2]

(***************************************************************************)
(* What the sighash commits to                                              *)
(***************************************************************************)
\* Other values a field of a transaction may take.
OtherTxids == {Rep(171, 32), [i \in 1..32 |-> i], Rep(171, 31) \o <<172>>}
OtherVouts == {BigOf(0), BigOf(1), U32Max}
OtherSequences == {BigOf(0), U32MaxLessOne, U32Max}
OtherValues == {BigOf(100000), BigOf(100001), U64Max}
OtherScriptPubkeys == {<<>>, <<0>>, <<0, 20>> \o Rep(17, 20),
                       <<0, 20>> \o Rep(17, 19) \o <<18>>}

\* The transactions that differ from t in one output's value or
\* script_pubkey.
OutputChanged(t) ==
    {[t EXCEPT !.outputs[k].value = v] :
        k \in 1..Len(t.outputs), v \in OtherValues}
      \cup {[t EXCEPT !.outputs[k].script_pubkey = spk] :
              k \in 1..Len(t.outputs), spk \in OtherScriptPubkeys}

\* The transactions that differ from t in one input's sequence number.
SequenceChanged(t) ==
    {[t EXCEPT !.inputs[k].sequence = q] :
        k \in 1..Len(t.inputs), q \in OtherSequences}

\* The transactions that differ from t in one input's txid or vout.
OutpointChanged(t) ==
    {[t EXCEPT !.inputs[k].txid = id] :
        k \in 1..Len(t.inputs), id \in OtherTxids}
      \cup {[t EXCEPT !.inputs[k].vout = n] :
              k \in 1..Len(t.inputs), n \in OtherVouts}

\* The transactions of the three kinds that are not t itself.
Changed(t) == (OutputChanged(t) \cup SequenceChanged(t) \cup OutpointChanged(t)) \ {t}

\* The transactions that differ from t in the sequence number of an input
\* other than the one at index ix.
OtherSequenceChanged(t, ix) ==
    {[t EXCEPT !.inputs[k].sequence = q] :
        k \in (1..Len(t.inputs)) \ {ix + 1}, q \in OtherSequences} \ {t}

\* C21: for a valid input index, the preimage and the sighash of a
\* transaction differ from those of every transaction that differs from it
\* in an output's value or script_pubkey, in an input's sequence number or
\* in an input's txid or vout, the signed input or another (SHA-256 taken as
\* collision-free).
C21_Commitment ==
    (/\ sig_phase \in {"serialized", "hashed"}
     /\ 0 <= sig_args.input_index
     /\ sig_args.input_index < Len(tx.inputs))
    => \A t \in Changed(tx) :
          SerializeRaises(t, sig_args) = None =>
              LET other == serialize_for_sighash(t, sig_args)
              IN  IF sig_phase = "serialized"
                  THEN other # preimage
                  ELSE sha256(sha256(other)) # digest

\* The sighash of input 0 of a transaction with two inputs and an output has
\* been computed, and a transaction exists that differs only in the
\* sequence number of input 1.
C21_Witness ==
    /\ sig_phase = "hashed"
    /\ sig_args.input_index = 0
    /\ Len(tx.inputs) = 2
    /\ Len(tx.outputs) = 1
    /\ \E t \in OtherSequenceChanged(tx, 0) :
          SerializeRaises(t, sig_args) = None

(***************************************************************************)
(* generate_test_vector                                                     *)
(***************************************************************************)
\* The value of a hexadecimal digit.
HexValue(c) ==
    CHOOSE v \in 0..15 :
        <<"0", "1", "2", "3", "4", "5", "6", "7",
          "8", "9", "a", "b", "c", "d", "e", "f">>[v + 1] = c

\* The byte string a hexadecimal string stands for.
FromHex(h) ==
    [i \in 1..(Len(h) \div 2) |->
        16 * HexValue(h[2 * i - 1]) + HexValue(h[2 * i])]

\* The byte strings a list of hexadecimal strings stands for.
FromHexList(l) == [i \in 1..Len(l) |-> FromHex(l[i])]

\* The dict has the key k.
Has(k) == k \in DOMAIN vector

\* C25: the dict generate_test_vector returns has exactly one of
\* expected_final_stack and expected_error: expected_final_stack, the
\* stack of the VM from bottom to top in hexadecimal, exactly when execute
\* succeeded, and expected_error, the VM's error, exactly when it failed;
\* initial_stack and script are the caller's arguments in hexadecimal,
\* whatever the script did to the stack.
C25_Vector ==
    gen_phase = "returned" =>
        /\ Has("expected_final_stack") # Has("expected_error")
        /\ Has("expected_final_stack") <=> result
        /\ Has("expected_error") <=> ~result
        /\ result =>
              /\ Len(vector["expected_final_stack"]) = Len(stack)
              /\ FromHexList(vector["expected_final_stack"]) = stack
        /\ ~result => vector["expected_error"] = error /\ error # None
        /\ DOMAIN vector \subseteq
              {"name", "description", "initial_stack", "script",
               "expected_final_stack", "expected_error"}
        /\ Len(vector["script"]) = 2 * Len(script)
        /\ FromHex(vector["script"]) = script
        /\ FromHexList(vector["initial_stack"]) = initial_stack

\* A vector of a successful run whose final stack holds two different
\* elements and is not the initial stack, built by a vm that has run before.
C25_Witness ==
    /\ gen_phase = "returned"
    /\ calls > 1
    /\ result
    /\ Len(stack) = 2
    /\ stack[1] # stack[2]
    /\ stack # initial_stack
    /\ Has("expected_final_stack")

(***************************************************************************)
(* Truthiness and the script-number value                                   *)
(***************************************************************************)
\* OP_VERIFY was the script and x the only element of the stack.
VerifiedAlone(x) ==
    /\ phase = "returned"
    /\ script = <<OP_VERIFY>>
    /\ initial_stack = <<x>>

\* C26: an element passes OP_VERIFY, i.e. is_truthy holds of it, exactly
\* when decode_script_num gives a number other than 0; the encoding of an
\* integer n is truthy exactly when n is not 0; and the element OP_EQUAL
\* pushes is truthy exactly when its operands were byte-identical, so that
\* OP_EQUAL OP_VERIFY on [a, b] succeeds exactly when a = b.
C26_TruthyIffNonZero ==
    /\ (Ran(OP_VERIFY) /\ Len(prev_stack) >= 1) =>
          LET x == Last(prev_stack)
          IN  /\ (error = None) <=> (decode_script_num(x) # BigZero)
              /\ is_truthy(x) <=> (decode_script_num(x) # BigZero)
              /\ Len(x) <= 4 => ((error = None) <=> (NumValue(x) # 0))
    /\ (phase = "returned" /\ script = <<OP_VERIFY>>
            /\ Len(initial_stack) = 1) =>
          \A n \in CodecValues :
              VerifiedAlone(encode_script_num(n)) =>
                  (result <=> (n # BigZero))
    /\ (Ran(OP_EQUAL) /\ Len(prev_stack) >= 2) =>
          (is_truthy(Last(stack)) <=> ByteIdentical(PrevA, PrevB))
    /\ (phase = "returned" /\ script = <<OP_EQUAL, OP_VERIFY>>
            /\ Len(initial_stack) = 2) =>
          (result <=> ByteIdentical(initial_stack[1], initial_stack[2]))

\* OP_EQUAL OP_VERIFY has failed on 0x01 and 0x0100, which decode to the
\* same number but are not the same bytes.
C26_Witness ==
    /\ phase = "returned"
    /\ script = <<OP_EQUAL, OP_VERIFY>>
    /\ initial_stack = << <<1>>, <<1, 0>> >>
    /\ ~result
    /\ error = "OP_VERIFY: failed"

(***************************************************************************)
(* Chains of OP_CAT                                                         *)
(***************************************************************************)
\* The number of bytes in the first n elements of st.
BytesIn(st, n) ==
    Cardinality(UNION {{<<j, i>> : i \in 1..Len(st[j])} : j \in 1..n})

\* x is e1 || ... || en for st = [e1..en].
IsConcatenation(x, st) ==
    /\ Len(x) = BytesIn(st, Len(st))
    /\ \A j \in 1..Len(st) :
          \A i \in 1..Len(st[j]) : x[BytesIn(st, j - 1) + i] = st[j][i]

\* The script is n - 1 OP_CATs for the n >= 1 elements of the initial
\* stack, and execute has returned.
ChainRan ==
    /\ phase = "returned"
    /\ Len(initial_stack) >= 1
    /\ script = Rep(OP_CAT, Len(initial_stack) - 1)

\* The chain has left the one element e1 || ... || en.
ChainConcatenated ==
    /\ result
    /\ Len(stack) = 1
    /\ IsConcatenation(stack[1], initial_stack)

\* x is w repeated.
IsRepetition(x, w) ==
    /\ Len(w) > 0
    /\ Len(x) % Len(w) = 0
    /\ \A i \in 1..Len(x) : x[i] = w[((i - 1) % Len(w)) + 1]

\* a and b are repetitions of one byte string; the empty string is zero
\* repetitions of any.
RepetitionsOfOne(a, b) ==
    \/ a = <<>>
    \/ b = <<>>
    \/ \E k \in 1..Len(a) :
          IsRepetition(a, SubSeq(a, 1, k)) /\ IsRepetition(b, SubSeq(a, 1, k))

\* What OP_CAT leaves on top when the two operands of the last OP_CAT are
\* given to it in the other order.
SwappedCat ==
    Last(OpCat(prev_pc + 1,
               Append(Append(Pop(Pop(prev_stack)), PrevB), PrevA)).stack)

\* OP_CAT on [a || b, c] has left what two OP_CATs leave on [a, b, c],
\* for every a and b the first operand can be cut into.
Associative ==
    (/\ phase = "returned"
     /\ script = <<OP_CAT>>
     /\ Len(initial_stack) = 2
     /\ Len(initial_stack[1]) + Len(initial_stack[2])
            <= MAX_SCRIPT_ELEMENT_SIZE)
    => LET x == initial_stack[1]
           c == initial_stack[2]
       IN  \A k \in 0..Len(x) :
              LET a == SubSeq(x, 1, k)
                  b == SubSeq(x, k + 1, Len(x))
                  right == FreshOutcome(<<OP_CAT, OP_CAT>>, <<a, b, c>>)
              IN  /\ FreshOutcome(<<OP_CAT>>, <<a, b>>).stack = <<x>>
                  /\ result /\ right.result
                  /\ stack = right.stack
                  /\ IsConcatenation(stack[1], <<a, b, c>>)

\* C23 as claimed: a stack [e1..en] with at most 520 bytes in all followed
\* by n - 1 OP_CATs ends with the single element e1 || ... || en, the
\* grouping of three operands makes no difference, and OP_CAT on [a, b]
\* differs from OP_CAT on [b, a] unless a = b.
C23_CatDiffersUnlessEqual ==
    /\ (ChainRan /\ BytesIn(initial_stack, Len(initial_stack))
                        <= MAX_SCRIPT_ELEMENT_SIZE) => ChainConcatenated
    /\ Associative
    /\ Succeeded(OP_CAT) => (PrevA # PrevB => Last(stack) # SwappedCat)
    /\ Succeeded(OP_CAT) => (PrevA = PrevB => Last(stack) = SwappedCat)

\* C23: a stack [e1..en] of at most 1000 elements with at most 520 bytes in
\* all followed by n - 1 OP_CATs ends with the single element
\* e1 || ... || en, the grouping of three operands makes no difference, and
\* OP_CAT on [a, b] differs from OP_CAT on [b, a] exactly when a and b are
\* not repetitions of one byte string (so it is the same when a = b, and
\* also when either is empty).
C23_Cat ==
    /\ (ChainRan /\ Len(initial_stack) <= MAX_STACK_SIZE
                 /\ BytesIn(initial_stack, Len(initial_stack))
                        <= MAX_SCRIPT_ELEMENT_SIZE) => ChainConcatenated
    /\ Associative
    /\ Succeeded(OP_CAT) =>
          (Last(stack) # SwappedCat <=> ~RepetitionsOfOne(PrevA, PrevB))
    /\ Succeeded(OP_CAT) => (PrevA = PrevB => Last(stack) = SwappedCat)

\* OP_CAT has joined a and aa, different operands that give aaa in either
\* order.
C23_Witness ==
    /\ Succeeded(OP_CAT)
    /\ PrevA = <<97>>
    /\ PrevB = <<97, 97>>
    /\ Last(stack) = <<97, 97, 97>>
    /\ SwappedCat = <<97, 97, 97>>

(***************************************************************************)
(* Sequential composition                                                   *)
(***************************************************************************)
\* The two parts of the script.
FirstPart == SubSeq(script, 1, split)
SecondPart == SubSeq(script, split + 1, Len(script))

\* What execute returns and leaves for the first part alone on the initial
\* stack.
FirstAlone == FreshOutcome(FirstPart, initial_stack)

\* C27: when execute(s1, st) succeeds with final stack st1, the flag, the
\* final stack and the error of execute(s1 + s2, st) are those of
\* execute(s2, st1), and the run of s1 + s2 has the stack st1 when it
\* reaches the end of s1; the empty script succeeds and leaves the initial
\* stack.
C27_Composes ==
    /\ (phase = "returned" /\ FirstAlone.result) =>
          LET second == FreshOutcome(SecondPart, FirstAlone.stack)
          IN  /\ result = second.result
              /\ stack = second.stack
              /\ error = second.error
    /\ (phase = "running" /\ pc = split /\ FirstAlone.result) =>
          stack = FirstAlone.stack
    /\ (phase = "returned" /\ FirstAlone.result) => pc >= split
    /\ (phase = "returned" /\ script = <<>>) =>
          result /\ stack = initial_stack /\ error = None

\* A script whose first part pushed a byte and whose second part duplicated
\* it has returned.
C27_Witness ==
    /\ phase = "returned"
    /\ split = 2
    /\ script = <<1, 1, OP_DUP>>
    /\ initial_stack = << <<1>> >>
    /\ result
    /\ stack = << <<1>>, <<1>>, <<1>> >>
====
